---- MODULE Spec2Model ----
(***************************************************************************)
(* Teacher Tools API backend: the authentication flow (register, login,    *)
(* refresh, logout), the JWT token service, the bearer dependency and the  *)
(* tenant-scoped roster and seating-chart stores.                          *)
(*                                                                         *)
(* The clock counts in units of 1/Resolution second; a JWT's exp and iat    *)
(* claims are whole seconds.  A uuid4 string is modelled as the next       *)
(* unused entry of UuidStr (uuid4 is collision free for every practical    *)
(* purpose).                                                               *)
(***************************************************************************)
EXTENDS Integers, Sequences, FiniteSets, TLC

\* ------------------------------------------------------------------ bounds

\* how many times the clock advances
MaxTicks == 1
\* how many uuid4 values are drawn (users, rosters and charts together)
MaxUuids == 3
\* how many tokens the server hands out
MaxTokens == 4
\* clock units per second
Resolution == 2

\* how many requests are followed line by line at a time
MaxInflight == 2

\* ------------------------------------------------------- program constants

ACCESS_TOKEN_EXPIRE_MINUTES == 15
REFRESH_TOKEN_EXPIRE_DAYS == 7
JWT_SECRET_KEY == "changeme-in-production"
JWT_ALGORITHM == "HS256"
time_cost == 3
memory_cost == 65536
parallelism == 4

HTTP_200_OK == 200
HTTP_201_CREATED == 201
HTTP_204_NO_CONTENT == 204
HTTP_400_BAD_REQUEST == 400
HTTP_401_UNAUTHORIZED == 401
HTTP_403_FORBIDDEN == 403
HTTP_404_NOT_FOUND == 404

\* Python's None, where a string is expected
None == "<None>"

\* str(uuid.uuid4()): the n-th value drawn
UuidStr ==
  <<"uuid-1", "uuid-2", "uuid-3", "uuid-4", "uuid-5", "uuid-6", "uuid-7", "uuid-8">>

uuid4(n) == UuidStr[n]

\* ----------------------------------------------------------- input domains

\* the e-mail addresses a client sends
RawEmails ==
  {[local |-> "t", domain |-> "school.edu"],
   [local |-> "T", domain |-> "school.edu"],
   [local |-> "t", domain |-> "SCHOOL.EDU"]}
\* the passwords users register with, and wrong guesses at them
Passwords == {"Secr3t!"}
WrongPasswords == {"guess"}
UserNames == {"Ms. T"}
Salts == {"salt-a"}
RosterNames == {"Period 1"}
Ciphertexts == {"AbC="}
IVs == {"Xy=="}
\* what an update can put in their place
NewNames == {"Period 2"}
NewCiphertexts == {""}
NewIVs == {"Qq=="}
\* an attacker's signing key
AttackerKey == "attacker-key"

\* datetime.now(timezone.utc) advances by the lifetime of an access token
\* and a fraction of a second, by a second more than that lifetime, or by a
\* second more than the lifetime of a refresh token
TickSteps ==
  {ACCESS_TOKEN_EXPIRE_MINUTES * 60 * Resolution + 1,
   (ACCESS_TOKEN_EXPIRE_MINUTES * 60 + 1) * Resolution,
   (REFRESH_TOKEN_EXPIRE_DAYS * 86400 + 1) * Resolution}

\* ------------------------------------------------------------ string case

\* str.lower() on the strings of the input domains
Lower(s) ==
  CASE s = "T" -> "t"
    [] s = "SCHOOL.EDU" -> "school.edu"
    [] OTHER -> s

\* pydantic's EmailStr: the address as email-validator normalises it, the
\* domain lower-cased and the local part kept as sent
EmailStr(raw) == [local |-> raw.local, domain |-> Lower(raw.domain)]

\* the case-insensitive comparison key of an address
CaseFold(email) == [local |-> Lower(email.local), domain |-> Lower(email.domain)]

\* --------------------------------------------------------- python's dicts
\* A dict is the sequence of its values in insertion order; each value
\* carries its key in the field "key".

DictKeys(d) == {d[i].key : i \in DOMAIN d}

DictHas(d, k) == \E i \in DOMAIN d : d[i].key = k

DictIndex(d, k) == CHOOSE i \in DOMAIN d : d[i].key = k

DictGet(d, k) == d[DictIndex(d, k)]

\* d[k] = v
DictSet(d, k, v) ==
  IF DictHas(d, k) THEN [d EXCEPT ![DictIndex(d, k)] = v] ELSE Append(d, v)

\* del d[k]
DictDel(d, k) ==
  LET i == DictIndex(d, k) IN
  [j \in 1..(Len(d) - 1) |-> IF j < i THEN d[j] ELSE d[j + 1]]

\* [v for v in d.values() if P(v)]
RECURSIVE FilterSeq(_, _)
FilterSeq(s, keep) ==
  IF s = <<>> THEN <<>>
  ELSE IF Head(s).key \in keep THEN <<Head(s)>> \o FilterSeq(Tail(s), keep)
  ELSE FilterSeq(Tail(s), keep)

\* ------------------------------------------------------- PasswordHasher

\* Argon2id of a password under a salt and the hasher's cost parameters
Argon2(password, salt) ==
  [password |-> password, salt |-> salt,
   t |-> time_cost, m |-> memory_cost, p |-> parallelism]

\* ph.hash(password): the encoded hash carries its salt and parameters
hash_password(password, salt) ==
  [salt |-> salt, t |-> time_cost, m |-> memory_cost, p |-> parallelism,
   digest |-> Argon2(password, salt)]

\* ph.verify(hashed, password) raises VerifyMismatchError on a mismatch
verify_password(password, hashed) ==
  hashed.digest = Argon2(password, hashed.salt)

\* ph.check_needs_rehash(hashed): the parameters the encoded hash carries are
\* not the hasher's
needs_rehash(hashed) ==
  <<hashed.t, hashed.m, hashed.p>> # <<time_cost, memory_cost, parallelism>>

\* --------------------------------------------------------- TokenService

\* timegm(d.utctimetuple()): a datetime as whole seconds, the fraction dropped
\* (jose turns the datetime claims of a token, and the time of a validation,
\* into seconds this way)
timegm(t) == t \div Resolution

\* d + timedelta(seconds)
timedelta(t, seconds) == t + seconds * Resolution

\* HMAC-SHA256 of the signing input under a key
HMAC(key, claims) == [key |-> key, claims |-> claims]

\* jose's jwt.encode
jwt_encode(claims, key, alg) ==
  [wellformed |-> TRUE, alg |-> alg, claims |-> claims, sig |-> HMAC(key, claims)]

\* a string that is no JWT
NoClaims == [sub |-> None, exp |-> 0, iat |-> 0, type |-> None]

Garbage ==
  [wellformed |-> FALSE, alg |-> None, claims |-> NoClaims,
   sig |-> HMAC(None, NoClaims)]

\* a faulty create_access_token: the subject is not the one asked for
MutCreateAccessOtherSub(subject, t) ==
  jwt_encode(
    [sub |-> uuid4(1), exp |-> timegm(timedelta(t, ACCESS_TOKEN_EXPIRE_MINUTES * 60)),
     iat |-> timegm(t),
     type |-> "access"],
    JWT_SECRET_KEY, JWT_ALGORITHM)

\* create_access_token(subject) at time t, as the routes call it (no
\* expires_delta, no extra_claims)
create_access_token(subject, t) ==
  jwt_encode(
    [sub |-> subject, exp |-> timegm(timedelta(t, ACCESS_TOKEN_EXPIRE_MINUTES * 60)),
     iat |-> timegm(t),
     type |-> "access"],
    JWT_SECRET_KEY, JWT_ALGORITHM)

\* a dict without entries; `if extra_claims:` takes None and the empty dict
\* alike, so both are this value
NoExtraClaims == <<>>

\* d.update(other): the entries of other replace those of d with the same
\* key, and the rest of other is added
DictUpdate(d, other) ==
  [k \in DOMAIN d \cup DOMAIN other |-> IF k \in DOMAIN other THEN other[k] ELSE d[k]]

\* the dict create_access_token hands to jwt.encode, for all three of its
\* parameters, at time t. expires_delta is in seconds; `if expires_delta:`
\* takes None and timedelta(0) alike, so both are 0. The datetimes are
\* written as jwt.encode stores them, in whole seconds.
to_encode(subject, expires_delta, extra_claims, t) ==
  LET expire == IF expires_delta # 0
                THEN timedelta(t, expires_delta)
                ELSE timedelta(t, ACCESS_TOKEN_EXPIRE_MINUTES * 60)
      claims == [sub |-> subject, exp |-> timegm(expire), iat |-> timegm(t),
                 type |-> "access"]
  IN  IF extra_claims # NoExtraClaims
      THEN DictUpdate(claims, extra_claims)
      ELSE claims

\* create_access_token(subject, expires_delta, extra_claims) at time t
create_access_token_with(subject, expires_delta, extra_claims, t) ==
  jwt_encode(to_encode(subject, expires_delta, extra_claims, t),
             JWT_SECRET_KEY, JWT_ALGORITHM)

\* a faulty create_refresh_token: timedelta(minutes=REFRESH_TOKEN_EXPIRE_DAYS)
MutRefreshTokenInMinutes(subject, t) ==
  jwt_encode(
    [sub |-> subject, exp |-> timegm(timedelta(t, REFRESH_TOKEN_EXPIRE_DAYS * 60)),
     iat |-> timegm(t),
     type |-> "refresh"],
    JWT_SECRET_KEY, JWT_ALGORITHM)

\* create_refresh_token(subject) at time t
create_refresh_token(subject, t) ==
  jwt_encode(
    [sub |-> subject, exp |-> timegm(timedelta(t, REFRESH_TOKEN_EXPIRE_DAYS * 86400)),
     iat |-> timegm(t),
     type |-> "refresh"],
    JWT_SECRET_KEY, JWT_ALGORITHM)

\* decode_token(token) at time t: jwt.decode checks the structure, the
\* algorithm, the signature and exp (expired when exp < timegm(now)); any JWTError
\* becomes None (ok = FALSE)
decode_token(token, t) ==
  IF /\ token.wellformed
     /\ token.alg = JWT_ALGORITHM
     /\ token.sig = HMAC(JWT_SECRET_KEY, token.claims)
     /\ ~(token.claims.exp < timegm(t))
  THEN [ok |-> TRUE, payload |-> token.claims]
  ELSE [ok |-> FALSE, payload |-> NoClaims]

\* verify_token_type(payload, expected_type)
verify_token_type(payload, expected_type) == payload.type = expected_type

\* ------------------------------------------------------------ responses

NoUser == <<>>
NoTokens == <<>>
NoItems == <<>>

\* an HTTP response: the status, the detail of an error, the WWW-Authenticate
\* header and the parts of a body
Response(status, detail, hdr, user, tokens, items) ==
  [status |-> status, detail |-> detail, www_authenticate |-> hdr,
   user |-> user, tokens |-> tokens, items |-> items]

\* raise HTTPException(status_code, detail, headers)
HTTPException(status, detail, hdr) ==
  Response(status, detail, hdr, NoUser, NoTokens, NoItems)

\* ----------------------------------------------------------------- deps

\* the Authorization header of a request: absent, or "Bearer <token>"
NoHeader == [present |-> FALSE, token |-> Garbage]

Bearer(token) == [present |-> TRUE, token |-> token]

\* security = HTTPBearer(): a request without credentials is refused before
\* the dependency's body runs, with 403 by the FastAPI releases up to 0.121
\* and 401 (with WWW-Authenticate) by the later ones; the build decides
HTTPBearer(header, missing_status) ==
  IF header.present
  THEN [ok |-> TRUE, err |-> HTTPException(HTTP_200_OK, None, FALSE)]
  ELSE [ok |-> FALSE,
        err |-> HTTPException(missing_status, "Not authenticated",
                              missing_status = HTTP_401_UNAUTHORIZED)]

\* a faulty get_current_user_id: the token's type is not looked at
MutUserIdSkipsTypeCheck(header, missing_status, t) ==
  LET bearer == HTTPBearer(header, missing_status)
      decoded == decode_token(header.token, t)
  IN  IF ~bearer.ok THEN [ok |-> FALSE, user_id |-> None, err |-> bearer.err]
      ELSE IF ~decoded.ok
      THEN [ok |-> FALSE, user_id |-> None,
            err |-> HTTPException(HTTP_401_UNAUTHORIZED, "Invalid or expired token", TRUE)]
      ELSE IF decoded.payload.sub = None
      THEN [ok |-> FALSE, user_id |-> None,
            err |-> HTTPException(HTTP_401_UNAUTHORIZED, "Invalid token payload", TRUE)]
      ELSE [ok |-> TRUE, user_id |-> decoded.payload.sub,
            err |-> HTTPException(HTTP_200_OK, None, FALSE)]

\* get_current_user_id(credentials) at time t: the user id, or the
\* HTTPException it raises
get_current_user_id(header, missing_status, t) ==
  LET bearer == HTTPBearer(header, missing_status)
      decoded == decode_token(header.token, t)
  IN  IF ~bearer.ok THEN [ok |-> FALSE, user_id |-> None, err |-> bearer.err]
      ELSE IF ~decoded.ok
      THEN [ok |-> FALSE, user_id |-> None,
            err |-> HTTPException(HTTP_401_UNAUTHORIZED, "Invalid or expired token", TRUE)]
      ELSE IF ~verify_token_type(decoded.payload, "access")
      THEN [ok |-> FALSE, user_id |-> None,
            err |-> HTTPException(HTTP_401_UNAUTHORIZED, "Invalid token type", TRUE)]
      ELSE IF decoded.payload.sub = None
      THEN [ok |-> FALSE, user_id |-> None,
            err |-> HTTPException(HTTP_401_UNAUTHORIZED, "Invalid token payload", TRUE)]
      ELSE [ok |-> TRUE, user_id |-> decoded.payload.sub,
            err |-> HTTPException(HTTP_200_OK, None, FALSE)]

\* a faulty get_current_tenant_id: every user is put in one tenant
MutOneTenantForAll(user_id) == "default"

\* get_current_tenant_id(user_id): tenant_id == user_id
get_current_tenant_id(user_id) == user_id

\* ----------------------------------------------------------- auth routes

UserResponse(id, email, name) == [id |-> id, email |-> email, name |-> name]

TokenResponse(access_token, refresh_token) ==
  [access_token |-> access_token, refresh_token |-> refresh_token,
   token_type |-> "bearer"]

\* a faulty register: no test for an email that is already registered
MutRegisterOverwrites(users, email, password, name, user_id, salt, t) ==
  LET user == [key |-> email, id |-> user_id, email |-> email, name |-> name,
               password_hash |-> hash_password(password, salt)]
      access_token == create_access_token(user_id, t)
      refresh_token == create_refresh_token(user_id, t)
  IN  [users |-> DictSet(users, email, user),
       resp |-> Response(HTTP_201_CREATED, None, FALSE,
                         <<UserResponse(user_id, email, name)>>,
                         <<TokenResponse(access_token, refresh_token)>>, NoItems)]

\* register(request): email is the validated EmailStr, user_id the uuid4
\* drawn, salt the hasher's random salt
register(users, email, password, name, user_id, salt, t) ==
  IF DictHas(users, email)
  THEN [users |-> users,
        resp |-> HTTPException(HTTP_400_BAD_REQUEST, "Email already registered", FALSE)]
  ELSE
    LET user == [key |-> email, id |-> user_id, email |-> email, name |-> name,
                 password_hash |-> hash_password(password, salt)]
        access_token == create_access_token(user_id, t)
        refresh_token == create_refresh_token(user_id, t)
    IN  [users |-> DictSet(users, email, user),
         resp |-> Response(HTTP_201_CREATED, None, FALSE,
                           <<UserResponse(user_id, email, name)>>,
                           <<TokenResponse(access_token, refresh_token)>>, NoItems)]

\* a faulty login: an unknown email gets an answer of its own
MutLoginTellsUnknownEmail(users, email, password, t) ==
  IF ~DictHas(users, email)
  THEN HTTPException(HTTP_404_NOT_FOUND, "Unknown email", FALSE)
  ELSE
    LET user == DictGet(users, email) IN
    IF ~verify_password(password, user.password_hash)
    THEN HTTPException(HTTP_401_UNAUTHORIZED, "Invalid email or password", FALSE)
    ELSE Response(HTTP_200_OK, None, FALSE,
                  <<UserResponse(user.id, user.email, user.name)>>,
                  <<TokenResponse(create_access_token(user.id, t),
                                  create_refresh_token(user.id, t))>>, NoItems)

\* login(request)
login(users, email, password, t) ==
  IF ~DictHas(users, email)
  THEN HTTPException(HTTP_401_UNAUTHORIZED, "Invalid email or password", FALSE)
  ELSE
    LET user == DictGet(users, email) IN
    IF ~verify_password(password, user.password_hash)
    THEN HTTPException(HTTP_401_UNAUTHORIZED, "Invalid email or password", FALSE)
    ELSE Response(HTTP_200_OK, None, FALSE,
                  <<UserResponse(user.id, user.email, user.name)>>,
                  <<TokenResponse(create_access_token(user.id, t),
                                  create_refresh_token(user.id, t))>>, NoItems)

\* how many times login(request) calls verify_password before it replies: an
\* unknown email is answered before the hasher is called at all
login_verify_calls(users, email, password) ==
  IF ~DictHas(users, email) THEN 0 ELSE 1

\* a faulty refresh_tokens: a refresh token older than the lifetime of an
\* access token is refused
MutRefreshUsesAccessTtl(refresh_token, t) ==
  LET decoded == decode_token(refresh_token, t) IN
  IF \/ ~decoded.ok \/ ~verify_token_type(decoded.payload, "refresh")
     \/ decoded.payload.iat + ACCESS_TOKEN_EXPIRE_MINUTES * 60 < timegm(t)
  THEN HTTPException(HTTP_401_UNAUTHORIZED, "Invalid refresh token", FALSE)
  ELSE IF decoded.payload.sub \in {None, ""}
  THEN HTTPException(HTTP_401_UNAUTHORIZED, "Invalid token payload", FALSE)
  ELSE Response(HTTP_200_OK, None, FALSE, NoUser,
                <<TokenResponse(create_access_token(decoded.payload.sub, t),
                                create_refresh_token(decoded.payload.sub, t))>>,
                NoItems)

\* refresh_tokens(request): "not user_id" holds for None and for ""
refresh_tokens(refresh_token, t) ==
  LET decoded == decode_token(refresh_token, t) IN
  IF ~decoded.ok \/ ~verify_token_type(decoded.payload, "refresh")
  THEN HTTPException(HTTP_401_UNAUTHORIZED, "Invalid refresh token", FALSE)
  ELSE IF decoded.payload.sub \in {None, ""}
  THEN HTTPException(HTTP_401_UNAUTHORIZED, "Invalid token payload", FALSE)
  ELSE Response(HTTP_200_OK, None, FALSE, NoUser,
                <<TokenResponse(create_access_token(decoded.payload.sub, t),
                                create_refresh_token(decoded.payload.sub, t))>>,
                NoItems)

\* logout()
logout == Response(HTTP_200_OK, "Successfully logged out", FALSE, NoUser, NoTokens, NoItems)

\* --------------------------------------------------------- roster routes

RosterResponse(r) ==
  [id |-> r.id, name |-> r.name, encrypted_data |-> r.encrypted_data,
   encryption_iv |-> r.encryption_iv, created_at |-> r.created_at,
   updated_at |-> r.updated_at]

\* datetime.isoformat() of an instant
isoformat(t) == t

\* the ids of the records of a store that carry this tenant_id
TenantKeys(db, tenant_id) ==
  {db[i].key : i \in {j \in DOMAIN db : db[j].tenant_id = tenant_id}}

RosterItems(rs) == [i \in DOMAIN rs |-> RosterResponse(rs[i])]

\* a faulty list_rosters: no filter on tenant_id
MutListAllRosters(rosters, tenant_id) ==
  Response(HTTP_200_OK, None, FALSE, NoUser, NoTokens, RosterItems(rosters))

\* list_rosters(tenant_id)
list_rosters(rosters, tenant_id) ==
  Response(HTTP_200_OK, None, FALSE, NoUser, NoTokens,
           RosterItems(FilterSeq(rosters, TenantKeys(rosters, tenant_id))))

\* a faulty create_roster: the roster is stored under its name
MutCreateRosterKeyedByName(rosters, roster, tenant_id, user_id, roster_id, t) ==
  LET roster_record ==
        [key |-> roster.name, id |-> roster.name, tenant_id |-> tenant_id,
         created_by |-> user_id, name |-> roster.name,
         encrypted_data |-> roster.encrypted_data,
         encryption_iv |-> roster.encryption_iv,
         created_at |-> isoformat(t), updated_at |-> isoformat(t)]
  IN  [db |-> DictSet(rosters, roster.name, roster_record),
       resp |-> Response(HTTP_201_CREATED, None, FALSE, NoUser, NoTokens,
                         <<RosterResponse(roster_record)>>)]

\* create_roster(roster, tenant_id, user_id): roster_id is the uuid4 drawn
create_roster(rosters, roster, tenant_id, user_id, roster_id, t) ==
  LET roster_record ==
        [key |-> roster_id, id |-> roster_id, tenant_id |-> tenant_id,
         created_by |-> user_id, name |-> roster.name,
         encrypted_data |-> roster.encrypted_data,
         encryption_iv |-> roster.encryption_iv,
         created_at |-> isoformat(t), updated_at |-> isoformat(t)]
  IN  [db |-> DictSet(rosters, roster_id, roster_record),
       resp |-> Response(HTTP_201_CREATED, None, FALSE, NoUser, NoTokens,
                         <<RosterResponse(roster_record)>>)]

\* a faulty get_roster: another tenant's roster is answered with 403
MutGetRosterForbidden(rosters, roster_id, tenant_id) ==
  IF ~DictHas(rosters, roster_id)
  THEN HTTPException(HTTP_404_NOT_FOUND, "Roster not found", FALSE)
  ELSE IF DictGet(rosters, roster_id).tenant_id # tenant_id
  THEN HTTPException(HTTP_403_FORBIDDEN, "Roster not found", FALSE)
  ELSE Response(HTTP_200_OK, None, FALSE, NoUser, NoTokens,
                <<RosterResponse(DictGet(rosters, roster_id))>>)

\* get_roster(roster_id, tenant_id)
get_roster(rosters, roster_id, tenant_id) ==
  IF ~DictHas(rosters, roster_id) \/ DictGet(rosters, roster_id).tenant_id # tenant_id
  THEN HTTPException(HTTP_404_NOT_FOUND, "Roster not found", FALSE)
  ELSE Response(HTTP_200_OK, None, FALSE, NoUser, NoTokens,
                <<RosterResponse(DictGet(rosters, roster_id))>>)

\* a faulty UpdatedRoster: "if update.encrypted_data:" skips an empty string
MutUpdatedRosterSkipsEmpty(roster, update, t) ==
  [roster EXCEPT
     !.name = IF update.name # None THEN update.name ELSE @,
     !.encrypted_data =
        IF update.encrypted_data # None /\ update.encrypted_data # ""
        THEN update.encrypted_data ELSE @,
     !.encryption_iv =
        IF update.encryption_iv # None /\ update.encryption_iv # ""
        THEN update.encryption_iv ELSE @,
     !.updated_at = isoformat(t)]

\* a faulty UpdatedRoster: every field of the update is assigned, absent or not
MutUpdatedRosterAssignsAbsent(roster, update, t) ==
  [roster EXCEPT
     !.name = update.name,
     !.encrypted_data = update.encrypted_data,
     !.encryption_iv = update.encryption_iv,
     !.updated_at = isoformat(t)]

\* a faulty UpdatedRoster: updated_at is stamped in whole seconds
MutUpdatedRosterWholeSeconds(roster, update, t) ==
  [roster EXCEPT
     !.name = IF update.name # None THEN update.name ELSE @,
     !.encrypted_data =
        IF update.encrypted_data # None THEN update.encrypted_data ELSE @,
     !.encryption_iv =
        IF update.encryption_iv # None THEN update.encryption_iv ELSE @,
     !.updated_at = isoformat(timegm(t) * Resolution)]

\* the record after update_roster's assignments
UpdatedRoster(roster, update, t) ==
  [roster EXCEPT
     !.name = IF update.name # None THEN update.name ELSE @,
     !.encrypted_data =
        IF update.encrypted_data # None THEN update.encrypted_data ELSE @,
     !.encryption_iv =
        IF update.encryption_iv # None THEN update.encryption_iv ELSE @,
     !.updated_at = isoformat(t)]

\* update_roster(roster_id, update, tenant_id)
update_roster(rosters, roster_id, update, tenant_id, t) ==
  IF ~DictHas(rosters, roster_id) \/ DictGet(rosters, roster_id).tenant_id # tenant_id
  THEN [db |-> rosters,
        resp |-> HTTPException(HTTP_404_NOT_FOUND, "Roster not found", FALSE)]
  ELSE
    LET roster == UpdatedRoster(DictGet(rosters, roster_id), update, t) IN
    [db |-> DictSet(rosters, roster_id, roster),
     resp |-> Response(HTTP_200_OK, None, FALSE, NoUser, NoTokens,
                       <<RosterResponse(roster)>>)]

\* a faulty delete_roster: 204 without "del _rosters_db[roster_id]"
MutDeleteRosterKeepsRecord(rosters, roster_id, tenant_id) ==
  IF ~DictHas(rosters, roster_id) \/ DictGet(rosters, roster_id).tenant_id # tenant_id
  THEN [db |-> rosters,
        resp |-> HTTPException(HTTP_404_NOT_FOUND, "Roster not found", FALSE)]
  ELSE [db |-> rosters,
        resp |-> Response(HTTP_204_NO_CONTENT, None, FALSE, NoUser, NoTokens, NoItems)]

\* delete_roster(roster_id, tenant_id)
delete_roster(rosters, roster_id, tenant_id) ==
  IF ~DictHas(rosters, roster_id) \/ DictGet(rosters, roster_id).tenant_id # tenant_id
  THEN [db |-> rosters,
        resp |-> HTTPException(HTTP_404_NOT_FOUND, "Roster not found", FALSE)]
  ELSE [db |-> DictDel(rosters, roster_id),
        resp |-> Response(HTTP_204_NO_CONTENT, None, FALSE, NoUser, NoTokens, NoItems)]

\* -------------------------------------------------- seating-chart routes

\* LayoutConfig; an optional value is the empty sequence (None) or <<value>>
GridLayout == [type |-> "grid", rows |-> <<2>>, cols |-> <<3>>, custom_positions |-> <<>>]

CustomLayout == [type |-> "custom", rows |-> <<>>, cols |-> <<>>, custom_positions |-> <<>>]

\* LayoutConfig.model_dump() and LayoutConfig(**dict)
model_dump(layout) == layout

SeatingChartResponse(c) ==
  [id |-> c.id, name |-> c.name, roster_id |-> c.roster_id, layout |-> c.layout,
   encrypted_positions |-> c.encrypted_positions,
   encryption_iv |-> c.encryption_iv, created_at |-> c.created_at,
   updated_at |-> c.updated_at]

ChartItems(cs) == [i \in DOMAIN cs |-> SeatingChartResponse(cs[i])]

\* the ids of the charts that reference this roster
RosterKeys(db, roster_id) ==
  {db[i].key : i \in {j \in DOMAIN db : db[j].roster_id = roster_id}}

\* list_seating_charts(tenant_id, roster_id): "if roster_id" is false for
\* None and for ""
list_seating_charts(charts, tenant_id, roster_id) ==
  LET mine == FilterSeq(charts, TenantKeys(charts, tenant_id))
      kept == IF roster_id \in {None, ""} THEN mine
              ELSE FilterSeq(mine, RosterKeys(mine, roster_id))
  IN  Response(HTTP_200_OK, None, FALSE, NoUser, NoTokens, ChartItems(kept))

\* a faulty create_seating_chart: an empty ciphertext is refused
MutCreateChartRefusesEmpty(charts, chart, tenant_id, user_id, chart_id, t) ==
  LET chart_record ==
        [key |-> chart_id, id |-> chart_id, tenant_id |-> tenant_id,
         created_by |-> user_id, name |-> chart.name,
         roster_id |-> chart.roster_id, layout |-> model_dump(chart.layout),
         encrypted_positions |-> chart.encrypted_positions,
         encryption_iv |-> chart.encryption_iv,
         created_at |-> isoformat(t), updated_at |-> isoformat(t)]
  IN  IF chart.encrypted_positions = ""
      THEN [db |-> charts,
            resp |-> HTTPException(HTTP_400_BAD_REQUEST, "Empty payload", FALSE)]
      ELSE [db |-> DictSet(charts, chart_id, chart_record),
            resp |-> Response(HTTP_201_CREATED, None, FALSE, NoUser, NoTokens,
                              <<SeatingChartResponse(chart_record)>>)]

\* create_seating_chart(chart, tenant_id, user_id)
create_seating_chart(charts, chart, tenant_id, user_id, chart_id, t) ==
  LET chart_record ==
        [key |-> chart_id, id |-> chart_id, tenant_id |-> tenant_id,
         created_by |-> user_id, name |-> chart.name,
         roster_id |-> chart.roster_id, layout |-> model_dump(chart.layout),
         encrypted_positions |-> chart.encrypted_positions,
         encryption_iv |-> chart.encryption_iv,
         created_at |-> isoformat(t), updated_at |-> isoformat(t)]
  IN  [db |-> DictSet(charts, chart_id, chart_record),
       resp |-> Response(HTTP_201_CREATED, None, FALSE, NoUser, NoTokens,
                         <<SeatingChartResponse(chart_record)>>)]

\* get_seating_chart(chart_id, tenant_id)
get_seating_chart(charts, chart_id, tenant_id) ==
  IF ~DictHas(charts, chart_id) \/ DictGet(charts, chart_id).tenant_id # tenant_id
  THEN HTTPException(HTTP_404_NOT_FOUND, "Seating chart not found", FALSE)
  ELSE Response(HTTP_200_OK, None, FALSE, NoUser, NoTokens,
                <<SeatingChartResponse(DictGet(charts, chart_id))>>)

\* a faulty UpdatedChart: every field of the update is assigned, absent or not
MutUpdatedChartAssignsAbsent(chart, update, t) ==
  [chart EXCEPT
     !.name = update.name,
     !.layout = IF update.layout # <<>> THEN model_dump(update.layout[1]) ELSE None,
     !.encrypted_positions = update.encrypted_positions,
     !.encryption_iv = update.encryption_iv,
     !.updated_at = isoformat(t)]

\* the record after update_seating_chart's assignments
UpdatedChart(chart, update, t) ==
  [chart EXCEPT
     !.name = IF update.name # None THEN update.name ELSE @,
     !.layout = IF update.layout # <<>> THEN model_dump(update.layout[1]) ELSE @,
     !.encrypted_positions =
        IF update.encrypted_positions # None THEN update.encrypted_positions ELSE @,
     !.encryption_iv =
        IF update.encryption_iv # None THEN update.encryption_iv ELSE @,
     !.updated_at = isoformat(t)]

\* a faulty update_seating_chart: no test of the chart's tenant_id
MutUpdateChartAnyTenant(charts, chart_id, update, tenant_id, t) ==
  IF ~DictHas(charts, chart_id)
  THEN [db |-> charts,
        resp |-> HTTPException(HTTP_404_NOT_FOUND, "Seating chart not found", FALSE)]
  ELSE
    LET chart == UpdatedChart(DictGet(charts, chart_id), update, t) IN
    [db |-> DictSet(charts, chart_id, chart),
     resp |-> Response(HTTP_200_OK, None, FALSE, NoUser, NoTokens,
                       <<SeatingChartResponse(chart)>>)]

\* update_seating_chart(chart_id, update, tenant_id)
update_seating_chart(charts, chart_id, update, tenant_id, t) ==
  IF ~DictHas(charts, chart_id) \/ DictGet(charts, chart_id).tenant_id # tenant_id
  THEN [db |-> charts,
        resp |-> HTTPException(HTTP_404_NOT_FOUND, "Seating chart not found", FALSE)]
  ELSE
    LET chart == UpdatedChart(DictGet(charts, chart_id), update, t) IN
    [db |-> DictSet(charts, chart_id, chart),
     resp |-> Response(HTTP_200_OK, None, FALSE, NoUser, NoTokens,
                       <<SeatingChartResponse(chart)>>)]

\* delete_seating_chart(chart_id, tenant_id)
delete_seating_chart(charts, chart_id, tenant_id) ==
  IF ~DictHas(charts, chart_id) \/ DictGet(charts, chart_id).tenant_id # tenant_id
  THEN [db |-> charts,
        resp |-> HTTPException(HTTP_404_NOT_FOUND, "Seating chart not found", FALSE)]
  ELSE [db |-> DictDel(charts, chart_id),
        resp |-> Response(HTTP_204_NO_CONTENT, None, FALSE, NoUser, NoTokens, NoItems)]

\* ---------------------------------------------------------------- state

\* the connections whose requests are followed line by line
Slots == 1..MaxInflight

\* a connection without a request
Idle == [op |-> "idle", pc |-> "idle"]

VARIABLES
  now,         \* datetime.now(timezone.utc), in seconds
  ticks,       \* how often the clock has advanced
  users_db,    \* auth._users_db
  rosters_db,  \* rosters._rosters_db
  charts_db,   \* seating._charts_db
  uuids,       \* how many uuid4 values have been drawn
  issued,      \* the tokens the server has returned so far, each with the
               \* field of the TokenResponse it was returned in
  registered,  \* the (email, password) pairs of the registrations that succeeded
  exchanged,   \* the exchanges refresh has made where they are recorded: the
               \* token presented and the pair returned for it
  inflight,    \* the requests that are followed through their handler line by
               \* line, one per connection
  loop         \* the connection whose handler the event loop is running, or 0

vars ==
  <<now, ticks, users_db, rosters_db, charts_db, uuids, issued, registered, exchanged, inflight, loop>>

\* what a client can do to a token it holds without the signing key: sign the
\* claims itself, or change claims and keep the signature
Forgeries(token) ==
  {jwt_encode(token.claims, AttackerKey, JWT_ALGORITHM),
   [token EXCEPT !.claims.type = IF @ = "access" THEN "refresh" ELSE "access",
                 !.claims.exp = @ + REFRESH_TOKEN_EXPIRE_DAYS * 86400]}

\* the tokens the clients hold
Held == {i.token : i \in issued}

\* the tokens a client can present
Presentable == Held \cup {Garbage} \cup UNION {Forgeries(token) : token \in Held}

\* the Authorization headers a client can send
Headers == {NoHeader} \cup {Bearer(token) : token \in Presentable}

\* the status HTTPBearer gives a request without credentials: the installed
\* FastAPI release decides which
NotAuthenticated == {HTTP_401_UNAUTHORIZED, HTTP_403_FORBIDDEN}

\* HTTPBearer's status matters to a request without credentials only
StatusFor(header) ==
  IF header.present THEN {HTTP_401_UNAUTHORIZED} ELSE NotAuthenticated

\* the ids a client can put in a path or a body
RequestIds == {uuid4(n) : n \in 1..MaxUuids}

RosterCreates == [name : RosterNames, encrypted_data : Ciphertexts, encryption_iv : IVs]

\* RosterUpdate: a field left out is None
RosterUpdates ==
  {[name |-> None, encrypted_data |-> None, encryption_iv |-> None]}
  \cup [name : NewNames, encrypted_data : {None}, encryption_iv : {None}]
  \cup [name : {None}, encrypted_data : NewCiphertexts, encryption_iv : NewIVs]

ChartCreates ==
  [name : RosterNames, roster_id : RequestIds, layout : {GridLayout},
   encrypted_positions : Ciphertexts, encryption_iv : IVs]

\* SeatingChartUpdate: a field left out is None (the layout: <<>>)
ChartUpdates ==
  {[name |-> None, layout |-> <<>>, encrypted_positions |-> None,
    encryption_iv |-> None]}
  \cup [name : NewNames, layout : {<<CustomLayout>>}, encrypted_positions : {None},
        encryption_iv : {None}]
  \cup [name : {None}, layout : {<<>>}, encrypted_positions : NewCiphertexts,
        encryption_iv : NewIVs]

Init ==
  /\ now = 0
  /\ ticks = 0
  /\ users_db = <<>>
  /\ rosters_db = <<>>
  /\ charts_db = <<>>
  /\ uuids = 0
  /\ issued = {}
  /\ registered = {}
  /\ exchanged = {}
  /\ inflight = [slot \in Slots |-> Idle]
  /\ loop = 0

\* the tokens of a response
TokensOf(r) ==
  UNION {{[token |-> r.tokens[i].access_token, field |-> "access_token"],
          [token |-> r.tokens[i].refresh_token, field |-> "refresh_token"]} :
         i \in DOMAIN r.tokens}

\* ---------------------------------------------------------------- routes
\* A route is its handler behind its dependencies, on the current state: the
\* response, and for a route that writes, the store after it.

RegisterRoute(raw, password, name, salt) ==
  register(users_db, EmailStr(raw), password, name, uuid4(uuids + 1), salt, now)

LoginRoute(raw, password) == login(users_db, EmailStr(raw), password, now)

RefreshRoute(refresh_token) == refresh_tokens(refresh_token, now)

\* Depends(get_current_tenant_id), on top of Depends(get_current_user_id)
CurrentTenantId(header, missing_status) ==
  LET user == get_current_user_id(header, missing_status, now) IN
  [ok |-> user.ok, err |-> user.err, user_id |-> user.user_id,
   tenant_id |-> IF user.ok THEN get_current_tenant_id(user.user_id) ELSE None]

ListRostersRoute(header, missing_status) ==
  LET dep == CurrentTenantId(header, missing_status) IN
  IF dep.ok THEN list_rosters(rosters_db, dep.tenant_id) ELSE dep.err

CreateRosterRoute(header, missing_status, roster) ==
  LET dep == CurrentTenantId(header, missing_status) IN
  IF dep.ok
  THEN create_roster(rosters_db, roster, dep.tenant_id, dep.user_id,
                     uuid4(uuids + 1), now)
  ELSE [db |-> rosters_db, resp |-> dep.err]

GetRosterRoute(header, missing_status, roster_id) ==
  LET dep == CurrentTenantId(header, missing_status) IN
  IF dep.ok THEN get_roster(rosters_db, roster_id, dep.tenant_id) ELSE dep.err

UpdateRosterRoute(header, missing_status, roster_id, update) ==
  LET dep == CurrentTenantId(header, missing_status) IN
  IF dep.ok
  THEN update_roster(rosters_db, roster_id, update, dep.tenant_id, now)
  ELSE [db |-> rosters_db, resp |-> dep.err]

DeleteRosterRoute(header, missing_status, roster_id) ==
  LET dep == CurrentTenantId(header, missing_status) IN
  IF dep.ok
  THEN delete_roster(rosters_db, roster_id, dep.tenant_id)
  ELSE [db |-> rosters_db, resp |-> dep.err]

ListChartsRoute(header, missing_status, roster_id) ==
  LET dep == CurrentTenantId(header, missing_status) IN
  IF dep.ok THEN list_seating_charts(charts_db, dep.tenant_id, roster_id) ELSE dep.err

CreateChartRoute(header, missing_status, chart) ==
  LET dep == CurrentTenantId(header, missing_status) IN
  IF dep.ok
  THEN create_seating_chart(charts_db, chart, dep.tenant_id, dep.user_id,
                            uuid4(uuids + 1), now)
  ELSE [db |-> charts_db, resp |-> dep.err]

GetChartRoute(header, missing_status, chart_id) ==
  LET dep == CurrentTenantId(header, missing_status) IN
  IF dep.ok THEN get_seating_chart(charts_db, chart_id, dep.tenant_id) ELSE dep.err

UpdateChartRoute(header, missing_status, chart_id, update) ==
  LET dep == CurrentTenantId(header, missing_status) IN
  IF dep.ok
  THEN update_seating_chart(charts_db, chart_id, update, dep.tenant_id, now)
  ELSE [db |-> charts_db, resp |-> dep.err]

DeleteChartRoute(header, missing_status, chart_id) ==
  LET dep == CurrentTenantId(header, missing_status) IN
  IF dep.ok
  THEN delete_seating_chart(charts_db, chart_id, dep.tenant_id)
  ELSE [db |-> charts_db, resp |-> dep.err]

\* ---------------------------------------------------------------- actions
\* A protected route runs its dependencies first; when they raise, the handler
\* never runs and the request leaves the state as it is.

Tick ==
  /\ ticks < MaxTicks
  /\ \E d \in TickSteps : now' = now + d
  /\ ticks' = ticks + 1
  /\ UNCHANGED <<users_db, rosters_db, charts_db, uuids, issued, registered, exchanged, inflight, loop>>

Register ==
  \E raw \in RawEmails, password \in Passwords, name \in UserNames, salt \in Salts :
    LET done == RegisterRoute(raw, password, name, salt) IN
    /\ done.resp.status = HTTP_201_CREATED => uuids < MaxUuids
    /\ Cardinality(issued \cup TokensOf(done.resp)) <= MaxTokens
    /\ users_db' = done.users
    /\ uuids' = IF done.resp.status = HTTP_201_CREATED THEN uuids + 1 ELSE uuids
    /\ issued' = issued \cup TokensOf(done.resp)
    /\ registered' =
         IF done.resp.status = HTTP_201_CREATED
         THEN registered \cup {[email |-> EmailStr(raw), password |-> password]}
         ELSE registered
    /\ UNCHANGED <<now, ticks, rosters_db, charts_db, exchanged, inflight, loop>>

Login ==
  \E raw \in RawEmails, password \in Passwords \cup WrongPasswords :
    LET done == LoginRoute(raw, password) IN
    /\ Cardinality(issued \cup TokensOf(done)) <= MaxTokens
    /\ issued' = issued \cup TokensOf(done)
    /\ UNCHANGED <<now, ticks, users_db, rosters_db, charts_db, uuids, registered, exchanged, inflight, loop>>

Refresh ==
  \E refresh_token \in Presentable :
    LET done == RefreshRoute(refresh_token) IN
    /\ Cardinality(issued \cup TokensOf(done)) <= MaxTokens
    /\ issued' = issued \cup TokensOf(done)
    /\ UNCHANGED <<now, ticks, users_db, rosters_db, charts_db, uuids, registered, exchanged, inflight, loop>>

\* refresh, with the exchange recorded (the server keeps no such record)
RefreshRecorded ==
  \E refresh_token \in Presentable :
    LET done == RefreshRoute(refresh_token) IN
    /\ Cardinality(issued \cup TokensOf(done)) <= MaxTokens
    /\ issued' = issued \cup TokensOf(done)
    /\ exchanged' =
         IF done.status = HTTP_200_OK
         THEN exchanged \cup {[token |-> refresh_token, pair |-> done.tokens[1]]}
         ELSE exchanged
    /\ UNCHANGED <<now, ticks, users_db, rosters_db, charts_db, uuids, registered,
                   inflight, loop>>

\* a faulty logout: the user store is emptied
MutLogoutEmptiesUsers ==
  /\ logout.status = HTTP_200_OK
  /\ users_db' = <<>>
  /\ UNCHANGED <<now, ticks, rosters_db, charts_db, uuids, issued, registered, exchanged, inflight, loop>>

Logout ==
  /\ logout.status = HTTP_200_OK
  /\ UNCHANGED vars

ListRosters ==
  \E header \in Headers : \E missing_status \in StatusFor(header) :
    /\ ListRostersRoute(header, missing_status).status # HTTP_204_NO_CONTENT
    /\ UNCHANGED vars

CreateRoster ==
  \E header \in Headers : \E missing_status \in StatusFor(header) :
    IF ~CurrentTenantId(header, missing_status).ok THEN UNCHANGED vars
    ELSE \E roster \in RosterCreates :
           /\ uuids < MaxUuids
           /\ rosters_db' = CreateRosterRoute(header, missing_status, roster).db
           /\ uuids' = uuids + 1
           /\ UNCHANGED <<now, ticks, users_db, charts_db, issued, registered, exchanged, inflight, loop>>

GetRoster ==
  \E header \in Headers : \E missing_status \in StatusFor(header) :
    IF ~CurrentTenantId(header, missing_status).ok THEN UNCHANGED vars
    ELSE \E roster_id \in RequestIds :
           /\ GetRosterRoute(header, missing_status, roster_id).status
                \in {HTTP_200_OK, HTTP_404_NOT_FOUND}
           /\ UNCHANGED vars

UpdateRoster ==
  \E header \in Headers : \E missing_status \in StatusFor(header) :
    IF ~CurrentTenantId(header, missing_status).ok THEN UNCHANGED vars
    ELSE \E roster_id \in RequestIds, update \in RosterUpdates :
           /\ rosters_db' =
                UpdateRosterRoute(header, missing_status, roster_id, update).db
           /\ UNCHANGED <<now, ticks, users_db, charts_db, uuids, issued, registered, exchanged, inflight, loop>>

\* a faulty DeleteRoster: the charts that reference the roster go with it
MutDeleteRosterCascades ==
  \E header \in Headers : \E missing_status \in StatusFor(header) :
    IF ~CurrentTenantId(header, missing_status).ok THEN UNCHANGED vars
    ELSE \E roster_id \in RequestIds :
           LET done == DeleteRosterRoute(header, missing_status, roster_id) IN
           /\ rosters_db' = done.db
           /\ charts_db' =
                IF done.resp.status = HTTP_204_NO_CONTENT
                THEN FilterSeq(charts_db,
                               DictKeys(charts_db) \ RosterKeys(charts_db, roster_id))
                ELSE charts_db
           /\ UNCHANGED <<now, ticks, users_db, uuids, issued, registered, exchanged, inflight, loop>>

DeleteRoster ==
  \E header \in Headers : \E missing_status \in StatusFor(header) :
    IF ~CurrentTenantId(header, missing_status).ok THEN UNCHANGED vars
    ELSE \E roster_id \in RequestIds :
           /\ rosters_db' = DeleteRosterRoute(header, missing_status, roster_id).db
           /\ UNCHANGED <<now, ticks, users_db, charts_db, uuids, issued, registered, exchanged, inflight, loop>>

ListCharts ==
  \E header \in Headers : \E missing_status \in StatusFor(header) :
    IF ~CurrentTenantId(header, missing_status).ok THEN UNCHANGED vars
    ELSE \E roster_id \in RequestIds \cup {None} :
           /\ ListChartsRoute(header, missing_status, roster_id).status = HTTP_200_OK
           /\ UNCHANGED vars

CreateChart ==
  \E header \in Headers : \E missing_status \in StatusFor(header) :
    IF ~CurrentTenantId(header, missing_status).ok THEN UNCHANGED vars
    ELSE \E chart \in ChartCreates :
           /\ uuids < MaxUuids
           /\ charts_db' = CreateChartRoute(header, missing_status, chart).db
           /\ uuids' = uuids + 1
           /\ UNCHANGED <<now, ticks, users_db, rosters_db, issued, registered, exchanged, inflight, loop>>

GetChart ==
  \E header \in Headers : \E missing_status \in StatusFor(header) :
    IF ~CurrentTenantId(header, missing_status).ok THEN UNCHANGED vars
    ELSE \E chart_id \in RequestIds :
           /\ GetChartRoute(header, missing_status, chart_id).status
                \in {HTTP_200_OK, HTTP_404_NOT_FOUND}
           /\ UNCHANGED vars

UpdateChart ==
  \E header \in Headers : \E missing_status \in StatusFor(header) :
    IF ~CurrentTenantId(header, missing_status).ok THEN UNCHANGED vars
    ELSE \E chart_id \in RequestIds, update \in ChartUpdates :
           /\ charts_db' =
                UpdateChartRoute(header, missing_status, chart_id, update).db
           /\ UNCHANGED <<now, ticks, users_db, rosters_db, uuids, issued, registered, exchanged, inflight, loop>>

DeleteChart ==
  \E header \in Headers : \E missing_status \in StatusFor(header) :
    IF ~CurrentTenantId(header, missing_status).ok THEN UNCHANGED vars
    ELSE \E chart_id \in RequestIds :
           /\ charts_db' = DeleteChartRoute(header, missing_status, chart_id).db
           /\ UNCHANGED <<now, ticks, users_db, rosters_db, uuids, issued, registered, exchanged, inflight, loop>>

\* The server process starts anew: the module-level stores are the empty
\* dicts again.  The clock, the uuid4 source, the signing key of the settings
\* and the tokens that clients hold are not part of the process.
Restart ==
  /\ users_db' = <<>>
  /\ rosters_db' = <<>>
  /\ charts_db' = <<>>
  /\ registered' = {}
  /\ inflight' = [slot \in Slots |-> Idle]
  /\ loop' = 0
  /\ UNCHANGED <<now, ticks, uuids, issued, exchanged>>

Next ==
  \/ Restart
  \/ Tick
  \/ Register
  \/ Login
  \/ Refresh
  \/ Logout
  \/ ListRosters
  \/ CreateRoster
  \/ GetRoster
  \/ UpdateRoster
  \/ DeleteRoster
  \/ ListCharts
  \/ CreateChart
  \/ GetChart
  \/ UpdateChart
  \/ DeleteChart

Spec == Init /\ [][Next]_vars

\* the authentication flow on its own, with the exchanges recorded
AuthNext ==
  \/ Restart
  \/ Tick
  \/ Register
  \/ Login
  \/ RefreshRecorded
  \/ Logout

AuthSpec == Init /\ [][AuthNext]_vars

\* the authentication flow next to clients that create records
SessionNext ==
  \/ AuthNext
  \/ CreateRoster
  \/ CreateChart

SessionSpec == Init /\ [][SessionNext]_vars

\* the two stores next to the clients that write to them
StoreNext ==
  \/ Tick
  \/ Register
  \/ CreateRoster
  \/ UpdateRoster
  \/ DeleteRoster
  \/ CreateChart
  \/ UpdateChart
  \/ DeleteChart

StoreSpec == Init /\ [][StoreNext]_vars

\* the tenants that the requests which pass the dependencies now resolve to
Resolved ==
  {CurrentTenantId(header, HTTP_401_UNAUTHORIZED).tenant_id :
     header \in {h \in Headers : CurrentTenantId(h, HTTP_401_UNAUTHORIZED).ok}}

\* ------------------------------------------------ handlers, line by line
\* Every handler is an "async def" without an await: once the event loop has
\* started it, it runs to its end before the loop runs anything else. A
\* request's dependencies are resolved before its handler starts, and other
\* requests' handlers may run in between.

\* the status of a request whose handler raised an exception that is no
\* HTTPException (KeyError of "del d[k]")
HTTP_500_INTERNAL_SERVER_ERROR == HTTP_400_BAD_REQUEST + 100

\* a faulty handler declaration: "def", which FastAPI runs in a thread pool
MutRunsInThreadPool(slot) == TRUE

\* the event loop may run the handler of this connection: it is free, or in
\* the middle of that handler (slot 0: a handler that runs in one step)
MayRun(slot) == loop \in {0, slot}

\* register(request) after its test of the email: lines 72 to 90
register_write(users, email, password, name, user_id, salt, t) ==
  LET user == [key |-> email, id |-> user_id, email |-> email, name |-> name,
               password_hash |-> hash_password(password, salt)]
  IN  [users |-> DictSet(users, email, user),
       resp |-> Response(HTTP_201_CREATED, None, FALSE,
                         <<UserResponse(user_id, email, name)>>,
                         <<TokenResponse(create_access_token(user_id, t),
                                         create_refresh_token(user_id, t))>>, NoItems)]

\* a faulty update_roster: "roster = dict(_rosters_db.get(roster_id))", so the
\* assignments go to a copy
MutUpdateRosterAssignsCopy(rosters, roster_id, update, t) == rosters

\* update_roster after its lookup: the assignments go through the reference
\* "roster" to the dict that the store holds under roster_id, if it still
\* holds it
update_roster_assign(rosters, roster_id, update, t) ==
  IF DictHas(rosters, roster_id)
  THEN DictSet(rosters, roster_id, UpdatedRoster(DictGet(rosters, roster_id), update, t))
  ELSE rosters

\* update_seating_chart after its lookup, likewise
update_seating_chart_assign(charts, chart_id, update, t) ==
  IF DictHas(charts, chart_id)
  THEN DictSet(charts, chart_id, UpdatedChart(DictGet(charts, chart_id), update, t))
  ELSE charts

\* "del d[k]": KeyError when the key is gone
del_item(db, key) ==
  IF DictHas(db, key)
  THEN [db |-> DictDel(db, key),
        resp |-> Response(HTTP_204_NO_CONTENT, None, FALSE, NoUser, NoTokens, NoItems)]
  ELSE [db |-> db,
        resp |-> HTTPException(HTTP_500_INTERNAL_SERVER_ERROR, "Internal Server Error",
                               FALSE)]

\* a request on its connection: what it asks for (update: the body of an
\* update, or nothing), where its handler is, whether
\* another request was waiting when its handler started, and its response
Request(op, email, password, name, salt, tenant_id, id, update) ==
  [op |-> op, pc |-> "ready", email |-> email, password |-> password,
   name |-> name, salt |-> salt, tenant_id |-> tenant_id, id |-> id,
   update |-> update, met |-> FALSE, resp |-> <<>>]

\* the email of a request that carries none
NoEmail == [local |-> None, domain |-> None]

\* the requests that can arrive now: registrations, and updates and deletes of
\* stored records under the tenants that accepted headers resolve to
Arrivals ==
  {Request("register", EmailStr(raw), password, name, salt, None, None, <<>>) :
     raw \in RawEmails, password \in Passwords, name \in UserNames, salt \in Salts}
  \cup {Request("update_roster", NoEmail, None, None, None, tenant_id, id, <<update>>) :
          tenant_id \in Resolved, id \in DictKeys(rosters_db), update \in RosterUpdates}
  \cup {Request("delete_roster", NoEmail, None, None, None, tenant_id, id, <<>>) :
          tenant_id \in Resolved, id \in DictKeys(rosters_db)}
  \cup {Request("update_seating_chart", NoEmail, None, None, None, tenant_id, id, <<update>>) :
          tenant_id \in Resolved, id \in DictKeys(charts_db), update \in ChartUpdates}
  \cup {Request("delete_seating_chart", NoEmail, None, None, None, tenant_id, id, <<>>) :
          tenant_id \in Resolved, id \in DictKeys(charts_db)}

\* the handler's first lines, to the end of its test: the response it raises
\* there, or none
Raised(r) ==
  LET done ==
        CASE r.op = "register" ->
               register(users_db, r.email, r.password, r.name, uuid4(uuids + 1),
                        r.salt, now).resp
          [] r.op = "update_roster" ->
               update_roster(rosters_db, r.id, r.update[1], r.tenant_id, now).resp
          [] r.op = "delete_roster" ->
               delete_roster(rosters_db, r.id, r.tenant_id).resp
          [] r.op = "update_seating_chart" ->
               update_seating_chart(charts_db, r.id, r.update[1], r.tenant_id, now).resp
          [] r.op = "delete_seating_chart" ->
               delete_seating_chart(charts_db, r.id, r.tenant_id).resp
  IN  IF done.status \in {HTTP_400_BAD_REQUEST, HTTP_404_NOT_FOUND}
      THEN <<done>> ELSE <<>>

\* a request arrives on the first idle connection, its dependencies resolved
Arrive(slot) ==
  /\ inflight[slot].pc = "idle"
  /\ \A other \in 1..(slot - 1) : inflight[other].pc # "idle"
  /\ \E r \in Arrivals : inflight' = [inflight EXCEPT ![slot] = r]
  /\ UNCHANGED <<now, ticks, users_db, rosters_db, charts_db, uuids, issued, registered,
                 exchanged, loop>>

\* the event loop starts the handler: its lookup and test
Begin(slot) ==
  LET r == inflight[slot]
      met == \E other \in Slots \ {slot} :
               inflight[other].pc \in {"ready", "passed"}
  IN  /\ r.pc = "ready"
      /\ MayRun(slot)
      /\ IF Raised(r) # <<>>
         THEN /\ inflight' = [inflight EXCEPT ![slot] =
                                [r EXCEPT !.pc = "done", !.met = met, !.resp = Raised(r)]]
              /\ loop' = 0
         ELSE /\ inflight' = [inflight EXCEPT ![slot] =
                                [r EXCEPT !.pc = "passed", !.met = met]]
              /\ loop' = slot
      /\ UNCHANGED <<now, ticks, users_db, rosters_db, charts_db, uuids, issued,
                     registered, exchanged>>

\* the handler's lines after its test, to its return
Finish(slot) ==
  LET r == inflight[slot] IN
  /\ r.pc = "passed"
  /\ MayRun(slot)
  /\ loop' = 0
  /\ CASE r.op = "register" ->
            LET done == register_write(users_db, r.email, r.password, r.name,
                                       uuid4(uuids + 1), r.salt, now)
            IN  /\ uuids < MaxUuids
                /\ Cardinality(issued \cup TokensOf(done.resp)) <= MaxTokens
                /\ users_db' = done.users
                /\ uuids' = uuids + 1
                /\ issued' = issued \cup TokensOf(done.resp)
                /\ registered' =
                     registered \cup {[email |-> r.email, password |-> r.password]}
                /\ inflight' = [inflight EXCEPT ![slot] =
                                  [r EXCEPT !.pc = "done", !.resp = <<done.resp>>]]
                /\ UNCHANGED <<now, ticks, rosters_db, charts_db, exchanged>>
       [] r.op = "update_roster" ->
            LET db == update_roster_assign(rosters_db, r.id, r.update[1], now)
                items == IF DictHas(db, r.id) THEN <<RosterResponse(DictGet(db, r.id))>>
                         ELSE NoItems
            IN  /\ rosters_db' = db
                /\ inflight' = [inflight EXCEPT ![slot] =
                     [r EXCEPT !.pc = "done",
                               !.resp = <<Response(HTTP_200_OK, None, FALSE, NoUser,
                                                   NoTokens, items)>>]]
                /\ UNCHANGED <<now, ticks, users_db, charts_db, uuids, issued,
                               registered, exchanged>>
       [] r.op = "delete_roster" ->
            LET done == del_item(rosters_db, r.id) IN
            /\ rosters_db' = done.db
            /\ inflight' = [inflight EXCEPT ![slot] =
                              [r EXCEPT !.pc = "done", !.resp = <<done.resp>>]]
            /\ UNCHANGED <<now, ticks, users_db, charts_db, uuids, issued,
                           registered, exchanged>>
       [] r.op = "update_seating_chart" ->
            LET db == update_seating_chart_assign(charts_db, r.id, r.update[1], now)
                items == IF DictHas(db, r.id)
                         THEN <<SeatingChartResponse(DictGet(db, r.id))>>
                         ELSE NoItems
            IN  /\ charts_db' = db
                /\ inflight' = [inflight EXCEPT ![slot] =
                     [r EXCEPT !.pc = "done",
                               !.resp = <<Response(HTTP_200_OK, None, FALSE, NoUser,
                                                   NoTokens, items)>>]]
                /\ UNCHANGED <<now, ticks, users_db, rosters_db, uuids, issued,
                               registered, exchanged>>
       [] r.op = "delete_seating_chart" ->
            LET done == del_item(charts_db, r.id) IN
            /\ charts_db' = done.db
            /\ inflight' = [inflight EXCEPT ![slot] =
                              [r EXCEPT !.pc = "done", !.resp = <<done.resp>>]]
            /\ UNCHANGED <<now, ticks, users_db, rosters_db, uuids, issued,
                           registered, exchanged>>

\* the handlers that are followed line by line, next to handlers that run in
\* one step when the event loop is free
LoopNext ==
  \/ \E slot \in Slots : Arrive(slot)
  \/ \E slot \in Slots : Begin(slot)
  \/ \E slot \in Slots : Finish(slot)
  \/ MayRun(0) /\ Register
  \/ MayRun(0) /\ CreateRoster
  \/ MayRun(0) /\ CreateChart

LoopSpec == Init /\ [][LoopNext]_vars

\* ------------------------------------------------------ notions for claims

\* the ids of the records a response returns
ItemIds(r) == {r.items[i].id : i \in DOMAIN r.items}

\* the tenants there are: in the reference mapping, the registered users' ids
Tenants == {users_db[i].id : i \in DOMAIN users_db}

\* the records of a store that tenant B does not own
Foreign(db, B) == {db[i] : i \in {j \in DOMAIN db : db[j].tenant_id # B}}

\* record r is in the store, as it is
Kept(db, r) == DictHas(db, r.key) /\ DictGet(db, r.key) = r

\* the headers the dependencies accept now, each with the tenant it resolves to
AcceptedAs(B) ==
  {header \in Headers :
     LET dep == CurrentTenantId(header, HTTP_401_UNAUTHORIZED) IN
     dep.ok /\ dep.tenant_id = B}

\* C1: tenant isolation. For every tenant B and every record of a store that
\* another tenant owns, whatever id (and update, and roster filter) B's request
\* names: list, get and update under B return no such record, update and delete
\* under B leave it in the store as it is, and delete under B never succeeds
\* on its id.
C1_TenantIsolation ==
  \A B \in Tenants :
    /\ \A r \in Foreign(rosters_db, B) :
         /\ r.id \notin ItemIds(list_rosters(rosters_db, B))
         /\ \A id \in RequestIds :
              /\ r.id \notin ItemIds(get_roster(rosters_db, id, B))
              /\ \A update \in RosterUpdates :
                   LET done == update_roster(rosters_db, id, update, B, now) IN
                   r.id \notin ItemIds(done.resp) /\ Kept(done.db, r)
              /\ LET done == delete_roster(rosters_db, id, B) IN
                 /\ Kept(done.db, r)
                 /\ id = r.id => done.resp.status # HTTP_204_NO_CONTENT
    /\ \A c \in Foreign(charts_db, B) :
         /\ \A filter \in RequestIds \cup {None} :
              c.id \notin ItemIds(list_seating_charts(charts_db, B, filter))
         /\ \A id \in RequestIds :
              /\ c.id \notin ItemIds(get_seating_chart(charts_db, id, B))
              /\ \A update \in ChartUpdates :
                   LET done == update_seating_chart(charts_db, id, update, B, now) IN
                   c.id \notin ItemIds(done.resp) /\ Kept(done.db, c)
              /\ LET done == delete_seating_chart(charts_db, id, B) IN
                 /\ Kept(done.db, c)
                 /\ id = c.id => done.resp.status # HTTP_204_NO_CONTENT

\* C1 witness: tenant A owns a roster, and tenant B, who holds an access token
\* the dependencies accept, lists the rosters and asks for A's: nothing and 404.
C1_Witness ==
  \E B \in Tenants : \E header \in AcceptedAs(B) :
    \E r \in Foreign(rosters_db, B) :
      /\ r.tenant_id \in Tenants
      /\ GetRosterRoute(header, HTTP_401_UNAUTHORIZED, r.id).status
           = HTTP_404_NOT_FOUND
      /\ ListRostersRoute(header, HTTP_401_UNAUTHORIZED).items = <<>>

\* C2: for get, update and delete on rosters and charts, the response to a
\* request for an id that another tenant owns is the response to a request for
\* an id that no record has, and the response the same request gets once the
\* record is gone from the store.
C2_NotFoundIndistinguishable ==
  \A B \in Tenants :
    /\ \A r \in Foreign(rosters_db, B) :
         \A absent \in (RequestIds \ DictKeys(rosters_db)) \cup {r.id} :
           LET db == IF absent = r.id THEN DictDel(rosters_db, r.id) ELSE rosters_db IN
           /\ get_roster(rosters_db, r.id, B) = get_roster(db, absent, B)
           /\ \A update \in RosterUpdates :
                update_roster(rosters_db, r.id, update, B, now).resp
                  = update_roster(db, absent, update, B, now).resp
           /\ delete_roster(rosters_db, r.id, B).resp = delete_roster(db, absent, B).resp
    /\ \A c \in Foreign(charts_db, B) :
         \A absent \in (RequestIds \ DictKeys(charts_db)) \cup {c.id} :
           LET db == IF absent = c.id THEN DictDel(charts_db, c.id) ELSE charts_db IN
           /\ get_seating_chart(charts_db, c.id, B) = get_seating_chart(db, absent, B)
           /\ \A update \in ChartUpdates :
                update_seating_chart(charts_db, c.id, update, B, now).resp
                  = update_seating_chart(db, absent, update, B, now).resp
           /\ delete_seating_chart(charts_db, c.id, B).resp
                = delete_seating_chart(db, absent, B).resp

\* C2 witness: a tenant with an accepted access token sends an update for
\* another tenant's chart and for an id no chart has: 404 both times.
C2_Witness ==
  \E B \in Tenants : \E header \in AcceptedAs(B) :
    \E c \in Foreign(charts_db, B) :
      \E absent \in RequestIds \ DictKeys(charts_db), update \in ChartUpdates :
        /\ UpdateChartRoute(header, HTTP_401_UNAUTHORIZED, c.id, update).resp.status
             = HTTP_404_NOT_FOUND
        /\ UpdateChartRoute(header, HTTP_401_UNAUTHORIZED, absent, update).resp.status
             = HTTP_404_NOT_FOUND

\* the records of a store that are gone from, or changed in, the store after
Touched(db, after) == {db[i] : i \in {j \in DOMAIN db : ~Kept(after, db[j])}}

\* the request behind this header resolves to the tenant of record r
ResolvesTo(header, missing_status, r) ==
  LET dep == CurrentTenantId(header, missing_status) IN
  dep.ok /\ dep.tenant_id = r.tenant_id

\* C3: whatever header, id and body an update or delete request carries, if it
\* ends in 404 the store after it is the store before it (every record, with
\* its fields and updated_at), and every record it changes or removes has the
\* tenant_id that the request resolved to.
C3_NotFoundChangesNothing ==
  \A header \in Headers : \A missing_status \in StatusFor(header) :
    \A id \in RequestIds :
      /\ \A update \in RosterUpdates :
           LET done == UpdateRosterRoute(header, missing_status, id, update) IN
           /\ done.resp.status = HTTP_404_NOT_FOUND => done.db = rosters_db
           /\ \A r \in Touched(rosters_db, done.db) :
                ResolvesTo(header, missing_status, r)
      /\ LET done == DeleteRosterRoute(header, missing_status, id) IN
         /\ done.resp.status = HTTP_404_NOT_FOUND => done.db = rosters_db
         /\ \A r \in Touched(rosters_db, done.db) :
              ResolvesTo(header, missing_status, r)
      /\ \A update \in ChartUpdates :
           LET done == UpdateChartRoute(header, missing_status, id, update) IN
           /\ done.resp.status = HTTP_404_NOT_FOUND => done.db = charts_db
           /\ \A c \in Touched(charts_db, done.db) :
                ResolvesTo(header, missing_status, c)
      /\ LET done == DeleteChartRoute(header, missing_status, id) IN
         /\ done.resp.status = HTTP_404_NOT_FOUND => done.db = charts_db
         /\ \A c \in Touched(charts_db, done.db) :
              ResolvesTo(header, missing_status, c)

\* C3 witness: a chart written at an earlier time belongs to one tenant;
\* another tenant's update of it, which would set a later updated_at, ends in 404.
C3_Witness ==
  \E B \in Tenants : \E header \in AcceptedAs(B) :
    \E c \in Foreign(charts_db, B), update \in ChartUpdates :
      /\ c.updated_at < isoformat(now)
      /\ update.name # None
      /\ UpdateChartRoute(header, HTTP_401_UNAUTHORIZED, c.id, update).resp.status
           = HTTP_404_NOT_FOUND

\* the header carries a token signed with the server's key, of type access,
\* and now is not after the token's expires_at
ValidAccess(header) ==
  /\ header.present
  /\ header.token.wellformed
  /\ header.token.alg = JWT_ALGORITHM
  /\ header.token.sig = HMAC(JWT_SECRET_KEY, header.token.claims)
  /\ header.token.claims.type = "access"
  /\ now <= header.token.claims.exp * Resolution

\* the responses of the ten protected routes to a header, over every id and body
ProtectedResponses(header, missing_status) ==
  {ListRostersRoute(header, missing_status)}
  \cup {CreateRosterRoute(header, missing_status, roster).resp :
          roster \in RosterCreates}
  \cup {GetRosterRoute(header, missing_status, id) : id \in RequestIds}
  \cup {UpdateRosterRoute(header, missing_status, id, update).resp :
          id \in RequestIds, update \in RosterUpdates}
  \cup {DeleteRosterRoute(header, missing_status, id).resp : id \in RequestIds}
  \cup {ListChartsRoute(header, missing_status, id) : id \in RequestIds \cup {None}}
  \cup {CreateChartRoute(header, missing_status, chart).resp : chart \in ChartCreates}
  \cup {GetChartRoute(header, missing_status, id) : id \in RequestIds}
  \cup {UpdateChartRoute(header, missing_status, id, update).resp :
          id \in RequestIds, update \in ChartUpdates}
  \cup {DeleteChartRoute(header, missing_status, id).resp : id \in RequestIds}

\* the roster stores the protected routes can leave behind for a header
RostersAfter(header, missing_status) ==
  {CreateRosterRoute(header, missing_status, roster).db : roster \in RosterCreates}
  \cup {UpdateRosterRoute(header, missing_status, id, update).db :
          id \in RequestIds, update \in RosterUpdates}
  \cup {DeleteRosterRoute(header, missing_status, id).db : id \in RequestIds}

\* the chart stores the protected routes can leave behind for a header
ChartsAfter(header, missing_status) ==
  {CreateChartRoute(header, missing_status, chart).db : chart \in ChartCreates}
  \cup {UpdateChartRoute(header, missing_status, id, update).db :
          id \in RequestIds, update \in ChartUpdates}
  \cup {DeleteChartRoute(header, missing_status, id).db : id \in RequestIds}

\* C4 (as claimed): a request to a protected route whose header is missing, or
\* whose token is malformed, not signed by the server, expired or not of type
\* access, gets 401 from every protected route, with no record in the
\* response, and leaves the roster and chart stores as they are.
C4_RefusedWith401 ==
  \A header \in Headers : \A missing_status \in StatusFor(header) :
    ~ValidAccess(header) =>
      /\ \A r \in ProtectedResponses(header, missing_status) :
           r.status = HTTP_401_UNAUTHORIZED /\ r.items = NoItems
      /\ RostersAfter(header, missing_status) = {rosters_db}
      /\ ChartsAfter(header, missing_status) = {charts_db}

\* the access validation's answer to a token is a 401 refusal
AccessRefuses(token) ==
  LET got == get_current_user_id(Bearer(token), HTTP_401_UNAUTHORIZED, now) IN
  ~got.ok /\ got.err.status = HTTP_401_UNAUTHORIZED

\* the refresh operation's answer to a token is a 401 without tokens
RefreshRefuses(token) ==
  LET r == RefreshRoute(token) IN
  r.status = HTTP_401_UNAUTHORIZED /\ r.tokens = NoTokens

\* C5: every token the server returned as a refresh_token, and every token
\* create_refresh_token mints now for any subject, is refused with 401 where
\* an access token is expected; every token the server returned as an
\* access_token from register, login or refresh, and every token
\* create_access_token mints now, is refused with 401 by the refresh operation.
C5_NotInterchangeable ==
  /\ \A i \in issued :
       /\ i.field = "refresh_token" => AccessRefuses(i.token)
       /\ i.field = "access_token" => RefreshRefuses(i.token)
  /\ \A subject \in RequestIds :
       /\ AccessRefuses(create_refresh_token(subject, now))
       /\ RefreshRefuses(create_access_token(subject, now))

\* C5 witness: the server has returned a refresh token and an access token
\* that both still decode (signature and expiry pass), and each is refused
\* where the other is expected.
C5_Witness ==
  \E i, j \in issued :
    /\ i.field = "refresh_token" /\ decode_token(i.token, now).ok
    /\ AccessRefuses(i.token)
    /\ j.field = "access_token" /\ decode_token(j.token, now).ok
    /\ RefreshRefuses(j.token)
    /\ now > 0

\* the lifetime a token of a TokenResponse field is issued with, in seconds
TTL(field) ==
  IF field = "access_token" THEN ACCESS_TOKEN_EXPIRE_MINUTES * 60
  ELSE REFRESH_TOKEN_EXPIRE_DAYS * 86400

\* C6 (as claimed): every token the server has issued is, at any time
\* strictly after its expires_at, refused by the access validation and by the
\* refresh operation; and a token's expires_at is its issue time plus the
\* lifetime of its type, whatever has happened since.
C6_ExpiredRefused ==
  \A i \in issued :
    /\ i.token.claims.exp = i.token.claims.iat + TTL(i.field)
    /\ now > i.token.claims.exp * Resolution =>
         AccessRefuses(i.token) /\ RefreshRefuses(i.token)

\* subject strings: the ids there are, one there is not, and the empty string
Subjects == RequestIds \cup {uuid4(MaxUuids + 1), ""}

\* how long after it is minted an access token is validated: at once, a clock
\* unit later, a second before its lifetime is over, and at the end of it
ValidationDelays ==
  {0, 1, (ACCESS_TOKEN_EXPIRE_MINUTES * 60 - 1) * Resolution,
   ACCESS_TOKEN_EXPIRE_MINUTES * 60 * Resolution}

\* the arguments of a registration request
RegisterRequests ==
  [raw : RawEmails, password : Passwords \cup WrongPasswords, name : UserNames,
   salt : Salts]

\* C7: for every subject, the token create_access_token mints for it now,
\* validated as an access token at any time not after its expires_at, yields
\* exactly that subject; and the access token a successful register returns
\* validates to the id of the Identity that register stored.
C7_RoundTrip ==
  /\ \A subject \in Subjects, d \in ValidationDelays :
       LET token == create_access_token(subject, now)
           got == get_current_user_id(Bearer(token), HTTP_401_UNAUTHORIZED, now + d)
       IN  now + d <= token.claims.exp * Resolution =>
             got.ok /\ got.user_id = subject
  /\ \A q \in RegisterRequests :
       LET done == RegisterRoute(q.raw, q.password, q.name, q.salt) IN
       done.resp.status = HTTP_201_CREATED =>
         LET got == get_current_user_id(Bearer(done.resp.tokens[1].access_token),
                                        HTTP_401_UNAUTHORIZED, now)
         IN  /\ got.ok
             /\ got.user_id = DictGet(done.users, EmailStr(q.raw)).id
             /\ got.user_id = done.resp.user[1].id

\* C7 witness: with an Identity stored and the clock advanced, a register for
\* another email succeeds, and an access token minted now for a subject other
\* than the first Identity's validates at the end of its lifetime.
C7_Witness ==
  /\ users_db # <<>>
  /\ now > 0
  /\ \E q \in RegisterRequests :
       RegisterRoute(q.raw, q.password, q.name, q.salt).resp.status = HTTP_201_CREATED
  /\ \E subject \in Subjects \ {uuid4(1)} :
       get_current_user_id(
         Bearer(create_access_token(subject, now)), HTTP_401_UNAUTHORIZED,
         timedelta(now, ACCESS_TOKEN_EXPIRE_MINUTES * 60)).ok

\* C8: a register whose (validated) email is a key of the user store answers
\* 400 without tokens and leaves the store as it is; any other register
\* answers 201, appends exactly one Identity (the email, the name, a hash of
\* the password, an id no stored Identity has) and returns that Identity and
\* an access and a refresh token whose subject is its id.
C8_Register ==
  \A q \in RegisterRequests :
    LET email == EmailStr(q.raw)
        done == RegisterRoute(q.raw, q.password, q.name, q.salt)
    IN  IF DictHas(users_db, email)
        THEN /\ done.resp.status = HTTP_400_BAD_REQUEST
             /\ done.resp.tokens = NoTokens /\ done.resp.user = NoUser
             /\ done.users = users_db
        ELSE /\ done.resp.status = HTTP_201_CREATED
             /\ Len(done.users) = Len(users_db) + 1
             /\ SubSeq(done.users, 1, Len(users_db)) = users_db
             /\ LET user == done.users[Len(done.users)]
                    tokens == done.resp.tokens[1]
                IN  /\ user.email = email /\ user.name = q.name
                    /\ verify_password(q.password, user.password_hash)
                    /\ user.id \notin Tenants
                    /\ done.resp.user = <<UserResponse(user.id, email, q.name)>>
                    /\ tokens.access_token.claims.sub = user.id
                    /\ tokens.access_token.claims.type = "access"
                    /\ tokens.refresh_token.claims.sub = user.id
                    /\ tokens.refresh_token.claims.type = "refresh"

\* C8 witness: the store holds an Identity; a register for its email with
\* another password is refused with 400, and a register for another email
\* succeeds.
C8_Witness ==
  /\ \E q \in RegisterRequests :
       /\ DictHas(users_db, EmailStr(q.raw))
       /\ ~verify_password(q.password, DictGet(users_db, EmailStr(q.raw)).password_hash)
       /\ RegisterRoute(q.raw, q.password, q.name, q.salt).resp.status
            = HTTP_400_BAD_REQUEST
  /\ \E q \in RegisterRequests :
       RegisterRoute(q.raw, q.password, q.name, q.salt).resp.status = HTTP_201_CREATED

\* C9 (as claimed): no two Identities of the user store have emails that are
\* equal when case is ignored, and no two have the same id.
C9_UniqueEmailAndId ==
  \A i, j \in DOMAIN users_db :
    i # j => /\ CaseFold(users_db[i].email) # CaseFold(users_db[j].email)
             /\ users_db[i].id # users_db[j].id

\* an email nobody registers
UnknownEmail == [local |-> "nobody", domain |-> "school.edu"]

\* C10: for every registered (email, password), login with that password
\* answers 200 with the Identity and tokens whose subject is its id; login
\* with any other password answers 401, with the very response login gives
\* for an email that is not registered, now and at any later time.
C10_Login ==
  \A reg \in registered :
    LET user == DictGet(users_db, reg.email)
        good == LoginRoute(reg.email, reg.password)
    IN  /\ good.status = HTTP_200_OK
        /\ good.user = <<UserResponse(user.id, reg.email, user.name)>>
        /\ good.tokens[1].access_token.claims.sub = user.id
        /\ good.tokens[1].refresh_token.claims.sub = user.id
        /\ \A password \in (Passwords \cup WrongPasswords \cup {""}) \ {reg.password} :
             LET bad == LoginRoute(reg.email, password) IN
             /\ bad.status = HTTP_401_UNAUTHORIZED
             /\ bad.tokens = NoTokens
             /\ bad = LoginRoute(UnknownEmail, password)
             /\ \A d \in TickSteps :
                  /\ login(users_db, reg.email, password, now + d) = bad
                  /\ login(users_db, EmailStr(UnknownEmail), password, now + d) = bad

\* C10 witness: two registrations have succeeded, the clock has advanced, and
\* a login with a wrong password for the second registered email answers 401.
C10_Witness ==
  /\ Cardinality(registered) > 1
  /\ now > 0
  /\ \E reg \in registered, password \in WrongPasswords :
       /\ DictIndex(users_db, reg.email) > 1
       /\ LoginRoute(reg.email, password).status = HTTP_401_UNAUTHORIZED

\* C11 (as claimed): a login that fails for a registered email with a wrong
\* password and a login that fails for an email that is not registered run
\* the same number of password-hash verifications before they reply.
C11_SameWorkOnFailure ==
  \A reg \in registered :
    \A password \in (Passwords \cup WrongPasswords \cup {""}) \ {reg.password} :
      /\ LoginRoute(reg.email, password).status = HTTP_401_UNAUTHORIZED
      /\ LoginRoute(UnknownEmail, password).status = HTTP_401_UNAUTHORIZED
      /\ login_verify_calls(users_db, reg.email, password)
           = login_verify_calls(users_db, EmailStr(UnknownEmail), password)

\* the answer of a protected route's dependencies to a presented token
AccessAnswer(token) ==
  get_current_user_id(Bearer(token), HTTP_401_UNAUTHORIZED, now)

\* C12 (as claimed): any two presented tokens that the protected routes
\* reject get the same error response, and any two tokens that refresh rejects
\* get the same error response, whichever check each of them failed.
C12_OneErrorForEveryRejection ==
  \A t1, t2 \in Presentable :
    /\ (~AccessAnswer(t1).ok /\ ~AccessAnswer(t2).ok)
         => AccessAnswer(t1).err = AccessAnswer(t2).err
    /\ (RefreshRoute(t1).status # HTTP_200_OK /\ RefreshRoute(t2).status # HTTP_200_OK)
         => RefreshRoute(t1) = RefreshRoute(t2)

\* the token is a refresh token the server signed and now is not after its
\* expires_at
ValidRefresh(token) ==
  /\ token.wellformed
  /\ token.alg = JWT_ALGORITHM
  /\ token.sig = HMAC(JWT_SECRET_KEY, token.claims)
  /\ token.claims.type = "refresh"
  /\ now <= token.claims.exp * Resolution

\* the pair of a refresh response carries the subject and each of its tokens
\* is accepted where a token of its type is expected
PairValidFor(r, subject) ==
  /\ r.status = HTTP_200_OK
  /\ Len(r.tokens) = 1
  /\ r.tokens[1].access_token.claims.sub = subject
  /\ r.tokens[1].refresh_token.claims.sub = subject
  /\ AccessAnswer(r.tokens[1].access_token).ok
  /\ AccessAnswer(r.tokens[1].access_token).user_id = subject
  /\ RefreshRoute(r.tokens[1].refresh_token).status = HTTP_200_OK
  /\ ~AccessAnswer(r.tokens[1].refresh_token).ok
  /\ RefreshRoute(r.tokens[1].access_token).status = HTTP_401_UNAUTHORIZED

\* C13 (as claimed): refresh of a valid, unexpired refresh token answers with
\* one access and one refresh token that carry the subject of the consumed
\* token, each accepted for its own type, and the pair is brand-new: neither
\* token is the consumed token or a token the server has handed out before.
C13_RefreshIssuesNewPair ==
  \A token \in Presentable :
    ValidRefresh(token) =>
      LET r == RefreshRoute(token) IN
      /\ PairValidFor(r, token.claims.sub)
      /\ r.tokens[1].refresh_token # token
      /\ r.tokens[1].refresh_token \notin Held
      /\ r.tokens[1].access_token \notin Held

\* C14 (as claimed): refresh answers 401, without tokens, to every presented
\* token whose subject is not the id of an Identity in the user store now.
C14_RefreshNeedsStoredSubject ==
  \A token \in Presentable :
    token.claims.sub \notin Tenants =>
      /\ RefreshRoute(token).status = HTTP_401_UNAUTHORIZED
      /\ RefreshRoute(token).tokens = NoTokens

\* C15: every refresh token that refresh has exchanged, however often, is at
\* every time up to its expires_at exchanged again, for a pair that is valid
\* for its subject; and of every pair issued for it so far, each token that
\* has not reached its own expires_at is accepted where its type is expected,
\* all of them at this same time.
C15_NoRevocation ==
  \A e \in exchanged :
    /\ now <= e.token.claims.exp * Resolution =>
         PairValidFor(RefreshRoute(e.token), e.token.claims.sub)
    /\ now <= e.pair.access_token.claims.exp * Resolution =>
         /\ AccessAnswer(e.pair.access_token).ok
         /\ AccessAnswer(e.pair.access_token).user_id = e.token.claims.sub
    /\ now <= e.pair.refresh_token.claims.exp * Resolution =>
         PairValidFor(RefreshRoute(e.pair.refresh_token), e.token.claims.sub)

\* C15 witness: one refresh token has been exchanged twice, for two different
\* pairs; a second past the lifetime of an access token it is exchanged again,
\* and the refresh tokens of both pairs are accepted too.
C15_Witness ==
  \E e1, e2 \in exchanged :
    /\ e1.token = e2.token
    /\ e1.pair # e2.pair
    /\ timegm(now) > e1.token.claims.iat + ACCESS_TOKEN_EXPIRE_MINUTES * 60
    /\ RefreshRoute(e1.token).status = HTTP_200_OK
    /\ RefreshRoute(e1.pair.refresh_token).status = HTTP_200_OK
    /\ RefreshRoute(e2.pair.refresh_token).status = HTTP_200_OK

\* C16: logout answers 200 in every state, and a logout step leaves the user
\* store, the roster store and the chart store as they are, and every token a
\* client can present that was accepted as an access token, or by refresh,
\* before the step is accepted after it.
C16_LogoutIsNoOp ==
  [][/\ logout.status = HTTP_200_OK
     /\ Logout =>
          /\ users_db' = users_db
          /\ rosters_db' = rosters_db
          /\ charts_db' = charts_db
          /\ \A token \in Presentable :
               /\ AccessAnswer(token).ok => AccessAnswer(token)'.ok
               /\ RefreshRoute(token).status = HTTP_200_OK
                    => RefreshRoute(token)'.status = HTTP_200_OK]_vars

\* C16 witness: with an Identity and a roster stored and a token accepted as
\* an access token and another by refresh, logout answers 200.
C16_Witness ==
  /\ users_db # <<>>
  /\ rosters_db # <<>>
  /\ \E token \in Held : AccessAnswer(token).ok
  /\ \E token \in Held : RefreshRoute(token).status = HTTP_200_OK
  /\ logout.status = HTTP_200_OK
  /\ logout.detail = "Successfully logged out"

\* the ids drawn so far: every id a user or a record was ever created with
Drawn == {uuid4(n) : n \in 1..uuids}

\* the store after a create is the store before it with this one record
\* appended, which is stamped with the request's tenant and subject and
\* carries an id never used before
CreatedIn(db, after, dep) ==
  /\ Len(after) = Len(db) + 1
  /\ SubSeq(after, 1, Len(db)) = db
  /\ LET new == after[Len(after)] IN
     /\ new.key = new.id
     /\ new.id \notin DictKeys(db)
     /\ new.id \notin Drawn
     /\ new.tenant_id = dep.tenant_id
     /\ new.created_by = dep.user_id
     /\ new.created_at = new.updated_at
     /\ new.created_at = isoformat(now)

\* C17: for every accepted request, create_roster and create_seating_chart
\* answer 201 and leave the store as it was plus exactly one record, whose id
\* is no id of the store and no id drawn before, whose tenant_id is the
\* request's tenant, whose created_by is its subject and whose created_at is
\* its updated_at; the response is that record.
C17_CreateAddsOneRecord ==
  \A header \in Headers :
    LET dep == CurrentTenantId(header, HTTP_401_UNAUTHORIZED) IN
    dep.ok =>
      /\ \A roster \in RosterCreates :
           LET done == CreateRosterRoute(header, HTTP_401_UNAUTHORIZED, roster) IN
           /\ done.resp.status = HTTP_201_CREATED
           /\ CreatedIn(rosters_db, done.db, dep)
           /\ done.resp.items = <<RosterResponse(done.db[Len(done.db)])>>
           /\ done.resp.items[1].name = roster.name
      /\ \A chart \in ChartCreates :
           LET done == CreateChartRoute(header, HTTP_401_UNAUTHORIZED, chart) IN
           /\ done.resp.status = HTTP_201_CREATED
           /\ CreatedIn(charts_db, done.db, dep)
           /\ done.resp.items = <<SeatingChartResponse(done.db[Len(done.db)])>>
           /\ done.resp.items[1].roster_id = chart.roster_id

\* C17 witness: the roster store holds a roster created at an earlier time, an
\* id has been drawn for a record that is no longer stored, and a request
\* accepted for the tenant of the stored roster creates another.
C17_Witness ==
  \E r \in Foreign(rosters_db, None) : \E header \in AcceptedAs(r.tenant_id) :
    /\ r.created_at < isoformat(now)
    /\ uuids > Len(users_db) + Len(rosters_db) + Len(charts_db)
    /\ \E roster \in RosterCreates :
         CreateRosterRoute(header, HTTP_401_UNAUTHORIZED, roster).resp.status
           = HTTP_201_CREATED

\* what a payload field holds after an update: the string the update carries,
\* or, if it carries none, what the field held
Written(value, old) == IF value # None THEN value ELSE old

\* get of roster r under its tenant returns this ciphertext and this IV
RosterReads(db, r, data, iv) ==
  LET got == get_roster(db, r.id, r.tenant_id) IN
  /\ got.status = HTTP_200_OK
  /\ got.items[1].id = r.id
  /\ got.items[1].encrypted_data = data
  /\ got.items[1].encryption_iv = iv

\* get of chart c under its tenant returns this ciphertext and this IV
ChartReads(db, c, data, iv) ==
  LET got == get_seating_chart(db, c.id, c.tenant_id) IN
  /\ got.status = HTTP_200_OK
  /\ got.items[1].id = c.id
  /\ got.items[1].encrypted_positions = data
  /\ got.items[1].encryption_iv = iv

\* C18: get under the owning tenant returns the stored ciphertext and IV as they
\* are; straight after a create it returns the strings the create carried;
\* after an update request of any tenant on any id it returns, for the record
\* the update succeeded on, the strings the update carried (the empty string
\* included) and else the strings it returned before; and a create or a delete
\* of another record changes neither.
C18_PayloadRoundTrip ==
  LET tenants == Resolved IN
  /\ \A r \in Foreign(rosters_db, None) :
       /\ RosterReads(rosters_db, r, r.encrypted_data, r.encryption_iv)
       /\ \A tenant_id \in tenants : \A id \in RequestIds :
            /\ \A update \in RosterUpdates :
                 LET done == update_roster(rosters_db, id, update, tenant_id, now) IN
                 IF done.resp.status = HTTP_200_OK /\ id = r.id
                 THEN RosterReads(done.db, r,
                                  Written(update.encrypted_data, r.encrypted_data),
                                  Written(update.encryption_iv, r.encryption_iv))
                 ELSE RosterReads(done.db, r, r.encrypted_data, r.encryption_iv)
            /\ LET done == delete_roster(rosters_db, id, tenant_id) IN
               DictHas(done.db, r.key) =>
                 RosterReads(done.db, r, r.encrypted_data, r.encryption_iv)
  /\ \A c \in Foreign(charts_db, None) :
       /\ ChartReads(charts_db, c, c.encrypted_positions, c.encryption_iv)
       /\ \A tenant_id \in tenants : \A id \in RequestIds :
            /\ \A update \in ChartUpdates :
                 LET done == update_seating_chart(charts_db, id, update, tenant_id, now) IN
                 IF done.resp.status = HTTP_200_OK /\ id = c.id
                 THEN ChartReads(done.db, c,
                                 Written(update.encrypted_positions, c.encrypted_positions),
                                 Written(update.encryption_iv, c.encryption_iv))
                 ELSE ChartReads(done.db, c, c.encrypted_positions, c.encryption_iv)
            /\ LET done == delete_seating_chart(charts_db, id, tenant_id) IN
               DictHas(done.db, c.key) =>
                 ChartReads(done.db, c, c.encrypted_positions, c.encryption_iv)
  /\ \A tenant_id \in tenants :
       /\ \A roster \in RosterCreates :
            LET done == create_roster(rosters_db, roster, tenant_id, tenant_id,
                                      uuid4(uuids + 1), now) IN
            /\ RosterReads(done.db, done.db[Len(done.db)],
                           roster.encrypted_data, roster.encryption_iv)
            /\ \A r \in Foreign(rosters_db, None) :
                 RosterReads(done.db, r, r.encrypted_data, r.encryption_iv)
       /\ \A chart \in ChartCreates :
            LET done == create_seating_chart(charts_db, chart, tenant_id, tenant_id,
                                             uuid4(uuids + 1), now) IN
            /\ ChartReads(done.db, done.db[Len(done.db)],
                          chart.encrypted_positions, chart.encryption_iv)
            /\ \A c \in Foreign(charts_db, None) :
                 ChartReads(done.db, c, c.encrypted_positions, c.encryption_iv)

\* C18 witness: a roster created with a ciphertext has later been updated to the
\* empty ciphertext, and its tenant's get, under a header that is accepted
\* now, returns the empty ciphertext with the IV of that update.
C18_Witness ==
  \E r \in Foreign(rosters_db, None) : \E owner \in AcceptedAs(r.tenant_id) :
    /\ r.created_at < r.updated_at
    /\ r.encrypted_data = ""
    /\ r.encryption_iv \in NewIVs
    /\ LET got == GetRosterRoute(owner, HTTP_401_UNAUTHORIZED, r.id) IN
       /\ got.status = HTTP_200_OK
       /\ got.items[1].encrypted_data = ""
       /\ got.items[1].encryption_iv = r.encryption_iv
    /\ RosterReads(rosters_db, r, "", r.encryption_iv)

\* the ways the second execution's payload strings differ from the first's:
\* every one empty, every one a string that is no ciphertext, or each one
\* exchanged for another (the empty one for a non-empty one and back)
Scrambles == {"blank", "junk", "swap"}

Scramble(k, str) ==
  IF str = None THEN None
  ELSE IF k = "blank" THEN ""
  ELSE IF k = "junk" THEN "not base64 !"
  ELSE IF str = "" THEN "AbC="
  ELSE IF str = "AbC=" THEN ""
  ELSE IF str = "Xy==" THEN "Qq=="
  ELSE IF str = "Qq==" THEN ""
  ELSE "Xy=="

\* a roster (record, request body or response) with its payload strings scrambled
RosterVariant(k, x) ==
  [x EXCEPT !.encrypted_data = Scramble(k, @), !.encryption_iv = Scramble(k, @)]

\* a chart (record, request body or response) with its payload strings scrambled
ChartVariant(k, x) ==
  [x EXCEPT !.encrypted_positions = Scramble(k, @), !.encryption_iv = Scramble(k, @)]

RosterVariants(k, seq) == [i \in DOMAIN seq |-> RosterVariant(k, seq[i])]

ChartVariants(k, seq) == [i \in DOMAIN seq |-> ChartVariant(k, seq[i])]

\* two roster responses are the same outcome but for the payload bytes
SameRosterOutcome(a, b) ==
  /\ a.status = b.status
  /\ a.detail = b.detail
  /\ RosterVariants("blank", a.items) = RosterVariants("blank", b.items)

\* two chart responses are the same outcome but for the payload bytes
SameChartOutcome(a, b) ==
  /\ a.status = b.status
  /\ a.detail = b.detail
  /\ ChartVariants("blank", a.items) = ChartVariants("blank", b.items)

\* two results of a writing roster operation: same outcome, and stores with
\* the same records, in the same order, but for the payload bytes
SameRosterResult(a, b) ==
  /\ SameRosterOutcome(a.resp, b.resp)
  /\ RosterVariants("blank", a.db) = RosterVariants("blank", b.db)

SameChartResult(a, b) ==
  /\ SameChartOutcome(a.resp, b.resp)
  /\ ChartVariants("blank", a.db) = ChartVariants("blank", b.db)

\* C19: take the store as it is and the store with every payload string
\* scrambled, and a request and the same request with its payload strings
\* scrambled. Every roster and chart operation, for every tenant a request can
\* resolve to and every id, gives both the same status and detail, the same
\* records in the response and the same records in the store afterwards, but
\* for the payload bytes. (So two runs of one operation sequence that start
\* from such stores stay such, step after step.)
C19_ZeroKnowledge ==
  LET tenants == Resolved IN
  \A k \in Scrambles :
    LET rosters2 == RosterVariants(k, rosters_db)
        charts2 == ChartVariants(k, charts_db)
    IN
    \A tenant_id \in tenants :
      /\ SameRosterOutcome(list_rosters(rosters_db, tenant_id),
                           list_rosters(rosters2, tenant_id))
      /\ \A roster \in RosterCreates :
           SameRosterResult(
             create_roster(rosters_db, roster, tenant_id, tenant_id,
                           uuid4(uuids + 1), now),
             create_roster(rosters2, RosterVariant(k, roster), tenant_id, tenant_id,
                           uuid4(uuids + 1), now))
      /\ \A chart \in ChartCreates :
           SameChartResult(
             create_seating_chart(charts_db, chart, tenant_id, tenant_id,
                                  uuid4(uuids + 1), now),
             create_seating_chart(charts2, ChartVariant(k, chart), tenant_id,
                                  tenant_id, uuid4(uuids + 1), now))
      /\ \A id \in RequestIds \cup {None} :
           SameChartOutcome(list_seating_charts(charts_db, tenant_id, id),
                            list_seating_charts(charts2, tenant_id, id))
      /\ \A id \in RequestIds :
           /\ SameRosterOutcome(get_roster(rosters_db, id, tenant_id),
                                get_roster(rosters2, id, tenant_id))
           /\ SameChartOutcome(get_seating_chart(charts_db, id, tenant_id),
                               get_seating_chart(charts2, id, tenant_id))
           /\ \A update \in RosterUpdates :
                SameRosterResult(
                  update_roster(rosters_db, id, update, tenant_id, now),
                  update_roster(rosters2, id, RosterVariant(k, update), tenant_id, now))
           /\ \A update \in ChartUpdates :
                SameChartResult(
                  update_seating_chart(charts_db, id, update, tenant_id, now),
                  update_seating_chart(charts2, id, ChartVariant(k, update),
                                       tenant_id, now))
           /\ SameRosterResult(delete_roster(rosters_db, id, tenant_id),
                               delete_roster(rosters2, id, tenant_id))
           /\ SameChartResult(delete_seating_chart(charts_db, id, tenant_id),
                              delete_seating_chart(charts2, id, tenant_id))

\* C19 witness: the stores hold a roster that an update left with the empty
\* ciphertext and a chart with a non-empty one; the scrambled stores hold other
\* strings in both; and the owner's get of the roster, under a header accepted
\* now, succeeds on the store and on the scrambled store with different
\* ciphertexts.
C19_Witness ==
  \E r \in Foreign(rosters_db, None) : \E c \in Foreign(charts_db, None) :
    \E owner \in AcceptedAs(r.tenant_id) :
      /\ r.encrypted_data = ""
      /\ c.encrypted_positions # ""
      /\ RosterVariants("swap", rosters_db) # rosters_db
      /\ ChartVariants("swap", charts_db) # charts_db
      /\ LET one == get_roster(rosters_db, r.id, r.tenant_id)
             two == get_roster(RosterVariants("swap", rosters_db), r.id, r.tenant_id)
         IN  /\ one = GetRosterRoute(owner, HTTP_401_UNAUTHORIZED, r.id)
             /\ one.status = HTTP_200_OK
             /\ two.status = HTTP_200_OK
             /\ one.items[1].encrypted_data # two.items[1].encrypted_data

\* the fields of a record that no request may change
SameIdentity(old, new) ==
  /\ new.key = old.key
  /\ new.id = old.id
  /\ new.tenant_id = old.tenant_id
  /\ new.created_by = old.created_by
  /\ new.created_at = old.created_at

\* every record of the store but the one under this key is in the store
\* afterwards, at its place and as it was
OthersKept(db, after, key) ==
  /\ Len(after) = Len(db)
  /\ \A i \in DOMAIN db : db[i].key # key => after[i] = db[i]

\* C20: when update_roster or update_seating_chart answers 200, for every
\* tenant a request can resolve to, every id and every partial body: each
\* field the body carries is overwritten with the body's value, each field it
\* leaves out is as it was, updated_at is now, id, tenant_id, created_by and
\* created_at (and the chart's roster_id) are as they were, every other
\* record is as it was, and the response is the record. A delete leaves every
\* record it does not remove as it was.
C20_UpdateFrame ==
  LET tenants == Resolved IN
  \A tenant_id \in tenants : \A id \in RequestIds :
    /\ \A update \in RosterUpdates :
         LET done == update_roster(rosters_db, id, update, tenant_id, now) IN
         done.resp.status = HTTP_200_OK =>
           LET old == DictGet(rosters_db, id)
               new == DictGet(done.db, id)
           IN  /\ DictHas(rosters_db, id) /\ DictHas(done.db, id)
               /\ new.name = Written(update.name, old.name)
               /\ new.encrypted_data = Written(update.encrypted_data, old.encrypted_data)
               /\ new.encryption_iv = Written(update.encryption_iv, old.encryption_iv)
               /\ new.updated_at = isoformat(now)
               /\ SameIdentity(old, new)
               /\ DOMAIN new = DOMAIN old
               /\ OthersKept(rosters_db, done.db, id)
               /\ done.resp.items = <<RosterResponse(new)>>
    /\ \A update \in ChartUpdates :
         LET done == update_seating_chart(charts_db, id, update, tenant_id, now) IN
         done.resp.status = HTTP_200_OK =>
           LET old == DictGet(charts_db, id)
               new == DictGet(done.db, id)
           IN  /\ DictHas(charts_db, id) /\ DictHas(done.db, id)
               /\ new.name = Written(update.name, old.name)
               /\ new.layout = IF update.layout # <<>> THEN update.layout[1]
                               ELSE old.layout
               /\ new.encrypted_positions =
                    Written(update.encrypted_positions, old.encrypted_positions)
               /\ new.encryption_iv = Written(update.encryption_iv, old.encryption_iv)
               /\ new.updated_at = isoformat(now)
               /\ SameIdentity(old, new)
               /\ new.roster_id = old.roster_id
               /\ DOMAIN new = DOMAIN old
               /\ OthersKept(charts_db, done.db, id)
               /\ done.resp.items = <<SeatingChartResponse(new)>>
    /\ \A r \in Touched(rosters_db, delete_roster(rosters_db, id, tenant_id).db) :
         r.key = id
    /\ \A c \in Touched(charts_db, delete_seating_chart(charts_db, id, tenant_id).db) :
         c.key = id

\* C20 witness: a chart was updated, after its creation, with a body that
\* carried a name and a layout and no payload, so that it has the new name and
\* layout and the ciphertext it was created with; another record is in the
\* store; and its tenant's update with a payload only, under a header accepted
\* now, answers 200.
C20_Witness ==
  \E c \in Foreign(charts_db, None) : \E owner \in AcceptedAs(c.tenant_id) :
    /\ c.created_at < c.updated_at
    /\ c.name \in NewNames
    /\ c.layout = CustomLayout
    /\ c.encrypted_positions \in Ciphertexts
    /\ Len(charts_db) > 1
    /\ \E update \in ChartUpdates :
         /\ update.name = None
         /\ update.encrypted_positions # None
         /\ UpdateChartRoute(owner, HTTP_401_UNAUTHORIZED, c.id, update).resp.status
              = HTTP_200_OK

\* C21: every stored roster and chart has updated_at >= created_at, and for
\* every tenant a request can resolve to, every id and every body, an update
\* that answers 200 leaves the record with an updated_at >= the one it had.
C21_TimestampsMonotonic ==
  LET tenants == Resolved IN
  /\ \A r \in Foreign(rosters_db, None) : r.updated_at >= r.created_at
  /\ \A c \in Foreign(charts_db, None) : c.updated_at >= c.created_at
  /\ \A tenant_id \in tenants : \A id \in RequestIds :
       /\ \A update \in RosterUpdates :
            LET done == update_roster(rosters_db, id, update, tenant_id, now) IN
            done.resp.status = HTTP_200_OK =>
              /\ DictGet(done.db, id).updated_at >= DictGet(rosters_db, id).updated_at
              /\ DictGet(done.db, id).updated_at >= DictGet(done.db, id).created_at
       /\ \A update \in ChartUpdates :
            LET done == update_seating_chart(charts_db, id, update, tenant_id, now) IN
            done.resp.status = HTTP_200_OK =>
              /\ DictGet(done.db, id).updated_at >= DictGet(charts_db, id).updated_at
              /\ DictGet(done.db, id).updated_at >= DictGet(done.db, id).created_at

\* C21 witness: a roster has been updated in the middle of a second, later
\* than it was created, and its tenant's update answers 200 now.
C21_Witness ==
  \E r \in Foreign(rosters_db, None) : \E owner \in AcceptedAs(r.tenant_id) :
    /\ r.updated_at % Resolution # 0
    /\ r.created_at < r.updated_at
    /\ \E update \in RosterUpdates :
         UpdateRosterRoute(owner, HTTP_401_UNAUTHORIZED, r.id, update).resp.status
           = HTTP_200_OK

\* the ids that may be named in a request and are not in the store: those
\* never given to a record of it and those of its deleted records
Absent(db) == (RequestIds \cup Drawn) \ DictKeys(db)

\* the store after a delete that answered 204: the record is gone and every
\* other record is there as it was
DeletedFrom(db, after, id) ==
  /\ ~DictHas(after, id)
  /\ Len(after) = Len(db) - 1
  /\ \A r \in Foreign(db, None) : r.key # id => Kept(after, r)

\* C22: for every tenant a request can resolve to: a delete that answers 204
\* leaves the store without that id and with every other record as it was;
\* get, update and delete of an id that is not in the store answer 404 and
\* list does not return it; and no create, update or delete, whatever it
\* names, puts an id that was drawn before and is not in the store back into
\* it. (So an id, once deleted, is absent and answered 404 ever after.)
C22_DeleteIsFinal ==
  LET tenants == Resolved IN
  \A tenant_id \in tenants :
    /\ \A id \in RequestIds :
         /\ LET done == delete_roster(rosters_db, id, tenant_id) IN
            /\ done.resp.status \in {HTTP_204_NO_CONTENT, HTTP_404_NOT_FOUND}
            /\ done.resp.status = HTTP_204_NO_CONTENT =>
                 DeletedFrom(rosters_db, done.db, id)
         /\ LET done == delete_seating_chart(charts_db, id, tenant_id) IN
            /\ done.resp.status \in {HTTP_204_NO_CONTENT, HTTP_404_NOT_FOUND}
            /\ done.resp.status = HTTP_204_NO_CONTENT =>
                 DeletedFrom(charts_db, done.db, id)
    /\ \A gone \in Absent(rosters_db) :
         /\ get_roster(rosters_db, gone, tenant_id).status = HTTP_404_NOT_FOUND
         /\ delete_roster(rosters_db, gone, tenant_id).resp.status = HTTP_404_NOT_FOUND
         /\ gone \notin ItemIds(list_rosters(rosters_db, tenant_id))
         /\ \A update \in RosterUpdates :
              update_roster(rosters_db, gone, update, tenant_id, now).resp.status
                = HTTP_404_NOT_FOUND
         /\ gone \in Drawn =>
              /\ \A roster \in RosterCreates :
                   ~DictHas(create_roster(rosters_db, roster, tenant_id, tenant_id,
                                          uuid4(uuids + 1), now).db, gone)
              /\ \A id \in RequestIds :
                   /\ ~DictHas(delete_roster(rosters_db, id, tenant_id).db, gone)
                   /\ \A update \in RosterUpdates :
                        ~DictHas(update_roster(rosters_db, id, update, tenant_id, now).db,
                                 gone)
    /\ \A gone \in Absent(charts_db) :
         /\ get_seating_chart(charts_db, gone, tenant_id).status = HTTP_404_NOT_FOUND
         /\ delete_seating_chart(charts_db, gone, tenant_id).resp.status
              = HTTP_404_NOT_FOUND
         /\ \A filter \in RequestIds \cup {None} :
              gone \notin ItemIds(list_seating_charts(charts_db, tenant_id, filter))
         /\ \A update \in ChartUpdates :
              update_seating_chart(charts_db, gone, update, tenant_id, now).resp.status
                = HTTP_404_NOT_FOUND
         /\ gone \in Drawn =>
              /\ \A chart \in ChartCreates :
                   ~DictHas(create_seating_chart(charts_db, chart, tenant_id, tenant_id,
                                                 uuid4(uuids + 1), now).db, gone)
              /\ \A id \in RequestIds :
                   /\ ~DictHas(delete_seating_chart(charts_db, id, tenant_id).db, gone)
                   /\ \A update \in ChartUpdates :
                        ~DictHas(update_seating_chart(charts_db, id, update, tenant_id,
                                                      now).db, gone)

\* C22 witness: no Identity has been lost (every token issued is for a stored
\* user), so an id that was drawn and belongs to no user and to no stored
\* record is the id of a deleted record; the tenant of a roster that is still
\* stored asks for it under a header accepted now and gets 404.
C22_Witness ==
  \E gone \in Drawn \ (Tenants \cup DictKeys(rosters_db) \cup DictKeys(charts_db)) :
    \E r \in Foreign(rosters_db, None) : \E header \in AcceptedAs(r.tenant_id) :
      /\ \A i \in issued : i.token.claims.sub \in Tenants
      /\ GetRosterRoute(header, HTTP_401_UNAUTHORIZED, gone).status = HTTP_404_NOT_FOUND
      /\ GetChartRoute(header, HTTP_401_UNAUTHORIZED, gone).status = HTTP_404_NOT_FOUND
      /\ DeleteRosterRoute(header, HTTP_401_UNAUTHORIZED, r.id).resp.status
           = HTTP_204_NO_CONTENT

\* the roster_id query strings a client can send, the empty one
\* ("?roster_id=") included
Filters == RequestIds \cup {""}

\* the response lists exactly these records of the store: none missing, none
\* extra, each once
ListsExactly(resp, records) ==
  /\ resp.status = HTTP_200_OK
  /\ ItemIds(resp) = {r.id : r \in records}
  /\ Len(resp.items) = Cardinality(records)

\* C23 (as claimed): for every tenant a request can resolve to, list_rosters
\* returns exactly the stored rosters with that tenant_id, list_seating_charts
\* without a filter exactly the stored charts with that tenant_id, and
\* list_seating_charts with a roster_id filter exactly those of them whose
\* roster_id is the filter.
C23_ListExact ==
  LET tenants == Resolved IN
  \A tenant_id \in tenants :
    /\ ListsExactly(list_rosters(rosters_db, tenant_id),
                    {r \in Foreign(rosters_db, None) : r.tenant_id = tenant_id})
    /\ ListsExactly(list_seating_charts(charts_db, tenant_id, None),
                    {c \in Foreign(charts_db, None) : c.tenant_id = tenant_id})
    /\ \A filter \in Filters :
         ListsExactly(list_seating_charts(charts_db, tenant_id, filter),
                      {c \in Foreign(charts_db, None) :
                         c.tenant_id = tenant_id /\ c.roster_id = filter})

\* C25: a request that passes the dependencies resolves to the tenant that is
\* the subject of its access token; every stored roster and chart has
\* tenant_id = created_by; and get returns a stored record, and list contains
\* it, exactly for the requests whose token's subject is the record's
\* created_by.
C25_SinglePrincipalTenancy ==
  /\ \A r \in Foreign(rosters_db, None) \cup Foreign(charts_db, None) :
       r.tenant_id = r.created_by
  /\ \A header \in Headers :
       LET dep == CurrentTenantId(header, HTTP_401_UNAUTHORIZED) IN
       dep.ok =>
         /\ dep.tenant_id = header.token.claims.sub
         /\ dep.user_id = header.token.claims.sub
         /\ \A r \in Foreign(rosters_db, None) :
              /\ GetRosterRoute(header, HTTP_401_UNAUTHORIZED, r.id).status = HTTP_200_OK
                   <=> header.token.claims.sub = r.created_by
              /\ r.id \in ItemIds(ListRostersRoute(header, HTTP_401_UNAUTHORIZED))
                   <=> header.token.claims.sub = r.created_by
         /\ \A c \in Foreign(charts_db, None) :
              /\ GetChartRoute(header, HTTP_401_UNAUTHORIZED, c.id).status = HTTP_200_OK
                   <=> header.token.claims.sub = c.created_by
              /\ c.id \in ItemIds(ListChartsRoute(header, HTTP_401_UNAUTHORIZED, None))
                   <=> header.token.claims.sub = c.created_by
         /\ \A roster \in RosterCreates :
              LET done == CreateRosterRoute(header, HTTP_401_UNAUTHORIZED, roster) IN
              /\ done.db[Len(done.db)].tenant_id = header.token.claims.sub
              /\ done.db[Len(done.db)].created_by = header.token.claims.sub

\* C25 witness: two Identities hold access tokens that are accepted now; a
\* roster created by one of them is returned to its creator and answered 404
\* to the other.
C25_Witness ==
  \E r \in Foreign(rosters_db, None) :
    \E mine \in AcceptedAs(r.created_by) :
      \E other \in Headers :
        /\ CurrentTenantId(other, HTTP_401_UNAUTHORIZED).ok
        /\ other.token.claims.sub # r.created_by
        /\ GetRosterRoute(mine, HTTP_401_UNAUTHORIZED, r.id).status = HTTP_200_OK
        /\ GetRosterRoute(other, HTTP_401_UNAUTHORIZED, r.id).status = HTTP_404_NOT_FOUND

\* C27: every accepted create_seating_chart answers 201 and stores the
\* roster_id it was given, whether or not a roster with that id is stored; no
\* step of create_roster, update_roster or delete_roster changes the chart
\* store, and no step of create_seating_chart, update_seating_chart or
\* delete_seating_chart changes the roster store.
C27_StoresIndependent ==
  /\ [](\A header \in Headers :
          CurrentTenantId(header, HTTP_401_UNAUTHORIZED).ok =>
            \A chart \in ChartCreates :
              LET done == CreateChartRoute(header, HTTP_401_UNAUTHORIZED, chart) IN
              /\ done.resp.status = HTTP_201_CREATED
              /\ done.db[Len(done.db)].roster_id = chart.roster_id)
  /\ [][/\ (CreateRoster \/ UpdateRoster \/ DeleteRoster) => charts_db' = charts_db
        /\ (CreateChart \/ UpdateChart \/ DeleteChart) => rosters_db' = rosters_db]_vars

\* C27 witness: a chart is stored that references an id of which there is no
\* roster, and the chart's tenant, under a header accepted now, creates another
\* chart for that id.
C27_Witness ==
  \E c \in Foreign(charts_db, None) : \E header \in AcceptedAs(c.tenant_id) :
    /\ c.roster_id \in Drawn \ (Tenants \cup DictKeys(charts_db))
    /\ ~DictHas(rosters_db, c.roster_id)
    /\ \E chart \in ChartCreates :
         /\ chart.roster_id = c.roster_id
         /\ CreateChartRoute(header, HTTP_401_UNAUTHORIZED, chart).resp.status
              = HTTP_201_CREATED

\* the access token of every pair in the response expires strictly before
\* the pair's refresh token
AccessExpiresFirst(resp) ==
  \A i \in DOMAIN resp.tokens :
    resp.tokens[i].access_token.claims.exp < resp.tokens[i].refresh_token.claims.exp

\* C28: in every state, the pair that any register request, any login request
\* and any refresh of a presentable token returns has an access token whose
\* exp is strictly earlier than the refresh token's, and so has every pair
\* that a refresh has returned so far.
C28_AccessExpiresFirst ==
  /\ \A q \in RegisterRequests :
       AccessExpiresFirst(RegisterRoute(q.raw, q.password, q.name, q.salt).resp)
  /\ \A raw \in RawEmails, password \in Passwords \cup WrongPasswords :
       AccessExpiresFirst(LoginRoute(raw, password))
  /\ \A token \in Presentable : AccessExpiresFirst(RefreshRoute(token))
  /\ \A e \in exchanged :
       e.pair.access_token.claims.exp < e.pair.refresh_token.claims.exp

\* C28 witness: a refresh has returned a pair, and now, later, a register, a
\* login and a refresh each return a pair.
C28_Witness ==
  /\ \E e \in exchanged : e.pair.access_token.claims.iat < timegm(now)
  /\ \E q \in RegisterRequests :
       RegisterRoute(q.raw, q.password, q.name, q.salt).resp.tokens # NoTokens
  /\ \E raw \in RawEmails, password \in Passwords : LoginRoute(raw, password).tokens # NoTokens
  /\ \E token \in Presentable : RefreshRoute(token).tokens # NoTokens

\* the fields RosterResponse(**roster) needs are there, none of them None
RosterPopulated(r) ==
  /\ {"id", "name", "encrypted_data", "encryption_iv", "created_at", "updated_at"}
       \subseteq DOMAIN r
  /\ None \notin {r.id, r.name, r.encrypted_data, r.encryption_iv}
  /\ r.created_at \in Nat /\ r.updated_at \in Nat

\* the fields SeatingChartResponse(**chart) needs are there, none of them None
ChartPopulated(c) ==
  /\ {"id", "name", "roster_id", "layout", "encrypted_positions", "encryption_iv",
      "created_at", "updated_at"} \subseteq DOMAIN c
  /\ None \notin {c.id, c.name, c.roster_id, c.encrypted_positions, c.encryption_iv}
  /\ c.layout \in {GridLayout, CustomLayout}
  /\ c.created_at \in Nat /\ c.updated_at \in Nat

\* C30: every stored roster and chart has each of its fields, none of them
\* None (the layout a LayoutConfig), and so has the record after any update
\* that answers 200, whatever fields the body leaves out.
C30_FieldsPopulated ==
  LET tenants == Resolved IN
  /\ \A r \in Foreign(rosters_db, None) : RosterPopulated(r)
  /\ \A c \in Foreign(charts_db, None) : ChartPopulated(c)
  /\ \A tenant_id \in tenants : \A id \in RequestIds :
       /\ \A update \in RosterUpdates :
            LET done == update_roster(rosters_db, id, update, tenant_id, now) IN
            done.resp.status = HTTP_200_OK =>
              /\ RosterPopulated(DictGet(done.db, id))
              /\ RosterPopulated(done.resp.items[1])
       /\ \A update \in ChartUpdates :
            LET done == update_seating_chart(charts_db, id, update, tenant_id, now) IN
            done.resp.status = HTTP_200_OK =>
              /\ ChartPopulated(DictGet(done.db, id))
              /\ ChartPopulated(done.resp.items[1])

\* C30 witness: a roster has been updated with a body that left its payload
\* out (it has the new name and the ciphertext it was created with), and its
\* tenant's update with an empty body, under a header accepted now, answers
\* 200 with the record.
C30_Witness ==
  \E r \in Foreign(rosters_db, None) : \E owner \in AcceptedAs(r.tenant_id) :
    /\ r.created_at < r.updated_at
    /\ r.name \in NewNames
    /\ r.encrypted_data \in Ciphertexts
    /\ LET done == UpdateRosterRoute(owner, HTTP_401_UNAUTHORIZED, r.id,
                     [name |-> None, encrypted_data |-> None, encryption_iv |-> None])
       IN  /\ done.resp.status = HTTP_200_OK
           /\ done.resp.items[1].name = r.name

\* the requests that are followed line by line and have their response
Done == {slot \in Slots : inflight[slot].pc = "done"}

\* the pairs of them, one of this kind and one of that, on the same id
DonePairs(op1, op2) ==
  {pq \in Done \X Done :
     /\ pq[1] # pq[2]
     /\ inflight[pq[1]].op = op1 /\ inflight[pq[2]].op = op2
     /\ inflight[pq[1]].id = inflight[pq[2]].id}

Answered(slot, status) == inflight[slot].resp[1].status = status

\* the fields an update body carries
RosterFields(update) ==
  {f \in {"name", "encrypted_data", "encryption_iv"} : update[f] # None}

ChartFields(update) ==
  {f \in {"name", "encrypted_positions", "encryption_iv"} : update[f] # None}
  \cup (IF update.layout # <<>> THEN {"layout"} ELSE {})

\* the stored record holds what the update body carries
HoldsRoster(r, update) == \A f \in RosterFields(update) : r[f] = update[f]

HoldsChart(c, update) ==
  \A f \in ChartFields(update) :
    c[f] = IF f = "layout" THEN update.layout[1] ELSE update[f]

\* C24: whichever way the event loop interleaves two requests (each arrives,
\* has its dependencies resolved, and has its handler run, with other
\* handlers in between): when two updates of one record that carry disjoint
\* fields have both answered 200, the record is stored with the values of
\* both; when an update and a delete of one record are both answered and the
\* delete answered 204, the record is not stored; no request is answered with
\* a server error; and at every moment every stored record has all its fields.
C24_AtomicMutations ==
  /\ \A pq \in DonePairs("update_roster", "update_roster") :
       LET a == inflight[pq[1]].update[1]
           b == inflight[pq[2]].update[1]
           id == inflight[pq[1]].id
       IN  (/\ Answered(pq[1], HTTP_200_OK) /\ Answered(pq[2], HTTP_200_OK)
            /\ RosterFields(a) \cap RosterFields(b) = {}) =>
             /\ DictHas(rosters_db, id)
             /\ HoldsRoster(DictGet(rosters_db, id), a)
             /\ HoldsRoster(DictGet(rosters_db, id), b)
  /\ \A pq \in DonePairs("update_seating_chart", "update_seating_chart") :
       LET a == inflight[pq[1]].update[1]
           b == inflight[pq[2]].update[1]
           id == inflight[pq[1]].id
       IN  (/\ Answered(pq[1], HTTP_200_OK) /\ Answered(pq[2], HTTP_200_OK)
            /\ ChartFields(a) \cap ChartFields(b) = {}) =>
             /\ DictHas(charts_db, id)
             /\ HoldsChart(DictGet(charts_db, id), a)
             /\ HoldsChart(DictGet(charts_db, id), b)
  /\ \A pq \in DonePairs("update_roster", "delete_roster") :
       Answered(pq[2], HTTP_204_NO_CONTENT) => ~DictHas(rosters_db, inflight[pq[2]].id)
  /\ \A pq \in DonePairs("update_seating_chart", "delete_seating_chart") :
       Answered(pq[2], HTTP_204_NO_CONTENT) => ~DictHas(charts_db, inflight[pq[2]].id)
  /\ \A slot \in Done :
       inflight[slot].resp[1].status
         \in {HTTP_200_OK, HTTP_201_CREATED, HTTP_204_NO_CONTENT, HTTP_400_BAD_REQUEST,
              HTTP_404_NOT_FOUND}
  /\ \A r \in Foreign(rosters_db, None) : RosterPopulated(r)
  /\ \A c \in Foreign(charts_db, None) : ChartPopulated(c)

\* C24 witness: two updates of one roster, one with a name and one with a
\* payload, have both answered 200, and one of them was waiting when the
\* other's handler started.
C24_Witness ==
  \E pq \in DonePairs("update_roster", "update_roster") :
    /\ Answered(pq[1], HTTP_200_OK) /\ Answered(pq[2], HTTP_200_OK)
    /\ inflight[pq[1]].met
    /\ RosterFields(inflight[pq[1]].update[1]) = {"name"}
    /\ RosterFields(inflight[pq[2]].update[1]) = {"encrypted_data", "encryption_iv"}
    /\ DictGet(rosters_db, inflight[pq[1]].id).name \in NewNames
    /\ DictGet(rosters_db, inflight[pq[1]].id).encrypted_data \in NewCiphertexts

\* the pairs of answered register requests that carried the same email
RegisterPairs ==
  {pq \in Done \X Done :
     /\ pq[1] # pq[2]
     /\ inflight[pq[1]].op = "register" /\ inflight[pq[2]].op = "register"
     /\ inflight[pq[1]].email = inflight[pq[2]].email}

\* C29: whichever way the event loop interleaves two register requests with
\* the same email, when both are answered: not both got 201; one that did not
\* get 201 got the 400 "Email already registered"; they did not both get 400
\* unless another request registered the email; and the Identity stored under
\* the email has the id the winner was answered with, which is the subject of
\* the winner's tokens.
C29_OneRegistrationWins ==
  \A pq \in RegisterPairs :
    LET a == inflight[pq[1]].resp[1]
        b == inflight[pq[2]].resp[1]
        email == inflight[pq[1]].email
    IN  /\ ~(a.status = HTTP_201_CREATED /\ b.status = HTTP_201_CREATED)
        /\ DictHas(users_db, email)
        /\ a.status = HTTP_201_CREATED =>
             /\ DictGet(users_db, email).id = a.user[1].id
             /\ a.tokens[1].access_token.claims.sub = DictGet(users_db, email).id
             /\ a.tokens[1].refresh_token.claims.sub = DictGet(users_db, email).id
             /\ b = HTTPException(HTTP_400_BAD_REQUEST, "Email already registered", FALSE)
        /\ a.status # HTTP_201_CREATED =>
             a = HTTPException(HTTP_400_BAD_REQUEST, "Email already registered", FALSE)
        /\ (a.status # HTTP_201_CREATED /\ b.status # HTTP_201_CREATED) =>
             \E i \in issued :
               /\ i.token.claims.sub = DictGet(users_db, email).id
               /\ i.token \notin {a.tokens[j].access_token : j \in DOMAIN a.tokens}

\* C29 witness: two register requests with one email are answered, one with
\* 201 and one with 400; the one answered 400 was waiting when the winner's
\* handler started; no other Identity is stored.
C29_Witness ==
  \E pq \in RegisterPairs :
    /\ Answered(pq[1], HTTP_201_CREATED)
    /\ Answered(pq[2], HTTP_400_BAD_REQUEST)
    /\ inflight[pq[1]].met
    /\ Len(users_db) = 1
    /\ users_db[1].id = inflight[pq[1]].resp[1].user[1].id

\* what a caller passes as expires_delta, in seconds: nothing, a minute, a day
ExpiresDeltas == {0, 60, 86400}

\* the keys a caller's extra_claims can have: the ones create_access_token
\* sets itself, and one of the caller's own
ExtraKeys == {"sub", "type", "exp", "role"}

\* what a caller passes as extra_claims: nothing, or any of these keys with a
\* value of the caller's
ExtraClaims ==
  {[k \in K |-> full[k]] :
     K \in SUBSET ExtraKeys,
     full \in [sub : {uuid4(1)}, type : {"access", "refresh"}, exp : {0},
               role : {"admin"}]}

\* C31 (as claimed): for every subject, expires_delta and extra_claims, the
\* token create_access_token returns now is well formed, passes
\* verify_token_type for "access" and carries the subject as its sub.
C31_AccessTokenTypeAndSub ==
  \A subject \in Subjects, expires_delta \in ExpiresDeltas, extra_claims \in ExtraClaims :
    LET token == create_access_token_with(subject, expires_delta, extra_claims, now) IN
    /\ token.wellformed
    /\ verify_token_type(token.claims, "access")
    /\ token.claims.sub = subject

====
